---- MODULE Spec2Model ----
(***************************************************************************)
(* A model of the page-object layer of ignition-automation-tools:          *)
(*   Components/BasicComponent.py  (ComponentCollection, ComponentPiece,   *)
(*                                  _LocatorBuilder)                       *)
(*   Components/PerspectiveComponents/Common/Tree.py (Item, CommonTree)    *)
(* Strings are sequences of one-character strings, so that formatting,     *)
(* splitting and joining are computed and not assumed.                     *)
(* Each group of operations has a specification of its own (SpecColl,      *)
(* SpecRetry, ...); the variables of the other groups stay at their idle   *)
(* values there.                                                           *)
(***************************************************************************)
EXTENDS Integers, Sequences, FiniteSets, TLC

VARIABLES
    \* ---- ComponentCollection (a dict subclass) ----
    cache,        \* the dict itself: formatted locator value -> instance id
    instLocator,  \* instance id -> the instance's own _locator value
    ctorCount,    \* history: formatted locator value -> constructions of the class
    returnedFor,  \* history: formatted locator value -> ids get() has returned
    lastGet,      \* history: the last get(): its outcome
    assigned,     \* history: instance id -> the locator set_locator gave it, and
                  \* the get() calls that returned the instance since
    \* ---- one call of a ComponentPiece operation ----
    op,           \* the operation called and its arguments
    pc,           \* where the call is: "find", "call", "until", "done"
    attempt,      \* retry_on_stale_element: the index of the wrapper's loop
    now,          \* time since the call started, in poll intervals
    endTime,      \* WebDriverWait.until: end_time of the wait in progress
    text,         \* wait_on_text_condition: the nonlocal text
    seen,         \* wait_on_text_condition: the nonlocal present_then_removed
    outcome,      \* what the caller got: a return value or a raised failure
    hist,         \* history: counters of what the call did to the driver
    \* ---- a tree widget in the document, and one CommonTree ----
    nodes,        \* the nodes the tree holds (label chains, root first)
    folders,      \* the nodes that show an expansion icon
    expanded,     \* the nodes whose expansion icon has the expanded class
    items,        \* CommonTree._items: path -> the piece built for it
    icons,        \* CommonTree._expand_collapse_icons: path -> the icon built for it
    stack,        \* the expand_to_item calls in progress, outermost first
    faults,       \* transient failures the driver may still produce
    slept,        \* time.sleep(delay_between_attempts) so far, summed
    event,        \* history: what the last step did about a failure
    clicksOn,     \* history: node -> clicks its expansion icon received
    treeOutcome,  \* what the caller of the outermost call got
    \* ---- one call of CommonTree.multi_select ----
    sel,          \* the call: its arguments, where it is, its piece_list
    chain,        \* the ActionChains object: the actions queued so far
    gesture,      \* history: the input events the browser was given
    \* ---- one call of a _LocatorBuilder function ----
    locators,     \* the argument: a list of locators, root first
    composed,     \* what get_css_locator gave: a (By, selector) pair or a failure
    xcomposed,    \* what get_xpath_locator gave for the same list
    recomposed,   \* what the two gave when called a second time with the list
    hashseed,     \* the order in which the running process iterates a set
    \* ---- the Item objects constructed so far ----
    heap,         \* object id -> the attributes of the Item
    edits,        \* history: attribute assignments made to Items after construction
    \* ---- one call of ComponentPiece.boundary_collision ----
    rects,        \* history: rect_1 and rect_2 of the invocation that returned
    \* ---- one call of ComponentPiece.click_with_offset ----
    capture,      \* history: intercepted clicks, clicks after one, screenshots
    \* ---- a parent ComponentPiece and a child built from its locator_list ----
    lists,        \* list object id -> the locators the list holds
    comps,        \* parent / child -> _locator and the ids of its two lists
    born,         \* history: parent.locator_list as it was when the child was built
    \* ---- one call of a probe accessor ----
    probed        \* history: what each find(timeout=0) of the call came to

collVars == <<cache, instLocator, ctorCount, returnedFor, lastGet, assigned>>
pieceVars == <<op, pc, attempt, now, endTime, text, seen, outcome, hist>>

treeVars == <<nodes, folders, expanded, items, icons, stack, faults, slept, event,
              clicksOn, treeOutcome>>

selVars == <<sel, chain, gesture>>

cssVars == <<locators, composed, xcomposed, recomposed, hashseed>>

itemVars == <<heap, edits>>

geomVars == <<rects>>

offsetVars == <<capture>>

chainVars == <<lists, comps, born>>

probeVars == <<probed>>

vars == <<collVars, pieceVars, treeVars, selVars, cssVars, itemVars, geomVars, offsetVars,
          chainVars, probeVars>>

----------------------------------------------------------------------------
\* Generic helpers on sequences.

\* sep.join(parts), as Python's str.join
RECURSIVE Join(_, _)
Join(sep, parts) ==
    IF parts = <<>> THEN <<>>
    ELSE IF Len(parts) = 1 THEN parts[1]
    ELSE parts[1] \o sep \o Join(sep, Tail(parts))

----------------------------------------------------------------------------
\* ComponentCollection

\* How many get() calls one behaviour makes.
MaxGets == 2

\* The values a caller formats into the template: K = List[Union[int, float, str]].
IntPiece(n) == [t |-> "int", v |-> n]
StrPiece(s) == [t |-> "str", v |-> s]
Pieces == {IntPiece(1), IntPiece(12), StrPiece(<<"1">>)}
\* The argument lists tried: too short for the template, exact, and with a surplus.
ArgLists == UNION {[1..k -> Pieces] : k \in 1..3}

\* str(n) for 0 <= n < 100, digit by digit
Digit(d) == CASE d = 0 -> "0" [] d = 1 -> "1" [] d = 2 -> "2" [] d = 3 -> "3"
              [] d = 4 -> "4" [] d = 5 -> "5" [] d = 6 -> "6" [] d = 7 -> "7"
              [] d = 8 -> "8" [] d = 9 -> "9"
StrOfInt(n) == IF n < 10 THEN <<Digit(n)>> ELSE <<Digit(n \div 10), Digit(n % 10)>>
StrOf(p) == IF p.t = "int" THEN StrOfInt(p.v) ELSE p.v

\* locator_string_ready_for_formatting: "#{}{}", a literal and two replacement fields
SLOT == "{}"
Template == <<"#", SLOT, SLOT>>
NumSlots(tpl) == Cardinality({i \in 1..Len(tpl) : tpl[i] = SLOT})

\* str.format(*pieces): the k-th field takes str(pieces[k]); surplus pieces are
\* ignored; a missing piece raises IndexError (FormatFails).
FormatFails(tpl, pieces) == Len(pieces) < NumSlots(tpl)
RECURSIVE FormatFrom(_, _)
FormatFrom(tpl, pieces) ==
    IF tpl = <<>> THEN <<>>
    ELSE IF Head(tpl) = SLOT
         THEN StrOf(Head(pieces)) \o FormatFrom(Tail(tpl), Tail(pieces))
         ELSE <<Head(tpl)>> \o FormatFrom(Tail(tpl), pieces)
Format(tpl, pieces) == FormatFrom(tpl, pieces)

NumInstances == Cardinality(DOMAIN instLocator)

CollInit ==
    /\ cache = <<>>
    /\ instLocator = <<>>
    /\ ctorCount = [k \in {} |-> 0]
    /\ returnedFor = [k \in {} |-> {}]
    /\ lastGet = [n |-> 0, outcome |-> "none", id |-> 0]
    /\ assigned = <<>>

Bump(f, k) == [x \in DOMAIN f \cup {k} |-> IF x = k
                                            THEN (IF k \in DOMAIN f THEN f[k] ELSE 0) + 1
                                            ELSE f[x]]
\* The history of one formatted locator: the ids returned for it, the first
\* argument list that asked for it, and whether a different list asked for it too.
Asked(f, k, pieces, id) ==
    [x \in DOMAIN f \cup {k} |->
        IF x # k THEN f[x]
        ELSE IF k \in DOMAIN f
             THEN [ids |-> f[k].ids \cup {id}, first |-> f[k].first,
                   varied |-> f[k].varied \/ pieces # f[k].first]
             ELSE [ids |-> {id}, first |-> pieces, varied |-> FALSE]]

\* super().get(locator): the stored instance, or None (0) when there is none
LookupMiss(locator) == 0
LookupByOwnLocator(locator) ==
    IF \E i \in DOMAIN instLocator : instLocator[i] = locator
    THEN CHOOSE i \in DOMAIN instLocator : instLocator[i] = locator
    ELSE 0
Lookup(locator) == IF locator \in DOMAIN cache THEN cache[locator] ELSE 0

\* ComponentCollection.get(list_of_pieces_to_format)
get(pieces) ==
    /\ lastGet.n < MaxGets
    /\ IF FormatFails(Template, pieces)
       THEN \* IndexError out of str.format: nothing is looked up or stored
            /\ lastGet' = [n |-> lastGet.n + 1, outcome |-> "IndexError", id |-> 0]
            /\ UNCHANGED <<cache, instLocator, ctorCount, returnedFor, assigned>>
       ELSE LET locator == Format(Template, pieces)
                component == Lookup(locator)
                \* "if not component": an instance is truthy (no __bool__/__len__)
                id == IF component # 0 THEN component ELSE NumInstances + 1
            IN /\ IF component # 0
                  THEN UNCHANGED <<cache, instLocator, ctorCount>>
                  ELSE /\ instLocator' = [i \in DOMAIN instLocator \cup {id} |->
                                            IF i = id THEN locator ELSE instLocator[i]]
                       /\ cache' = [k \in DOMAIN cache \cup {locator} |->
                                            IF k = locator THEN id ELSE cache[k]]
                       /\ ctorCount' = Bump(ctorCount, locator)
               /\ returnedFor' = Asked(returnedFor, locator, pieces, id)
               /\ lastGet' = [n |-> lastGet.n + 1, outcome |-> "returned", id |-> id]
               /\ assigned' = [i \in DOMAIN assigned |->
                                  IF i = id THEN [assigned[i] EXCEPT !.later = @ + 1]
                                  ELSE assigned[i]]

Get == \E pieces \in ArgLists : get(pieces)


\* The locators a caller hands to set_locator: one no key formats to, and one that
\* another key of the collection formats to.
NewLocators == {<<"#", "z">>, Format(Template, <<IntPiece(1), IntPiece(12)>>)}

\* instance.set_locator(new_locator), on an instance get() has returned
SetLocator ==
    \E id \in DOMAIN instLocator, new_locator \in NewLocators :
        /\ instLocator[id] # new_locator
        /\ instLocator' = [instLocator EXCEPT ![id] = new_locator]
        /\ assigned' = [i \in DOMAIN assigned \cup {id} |->
                           IF i = id THEN [locator |-> new_locator, later |-> 0]
                           ELSE assigned[i]]
        /\ UNCHANGED <<cache, ctorCount, returnedFor, lastGet>>
----------------------------------------------------------------------------
\* ComponentPiece: one call of an operation, against a driver whose answers are
\* chosen freely (the document re-renders between any two driver calls).
\* Time is counted in poll intervals.

\* @retry_on_stale_element(retry_attempts=3)
RetryAttempts == 3

\* The timeout the instance was constructed with (self.wait), in poll intervals.
InstTimeout == 1

\* timeout=None of click / wait_on_text_condition / find
NoTimeout == -1

Stale == "StaleElementReferenceException"
Timeout == "TimeoutException"
Intercepted == "ElementClickInterceptedException"
NotImplemented == "NotImplementedError"

\* Python values that cross the model: str, bool, None.
Str(s) == [t |-> "str", v |-> s]
Bool(b) == [t |-> "bool", v |-> b]
NoneValue == [t |-> "none"]
\* "if value:" -- a bool is itself, a str is truthy when not empty
Truthy(x) == IF x.t = "bool" THEN x.v ELSE IF x.t = "str" THEN x.v # <<>> ELSE FALSE

Return(v) == [kind |-> "return", value |-> v]
Raise(x, why) == [kind |-> "raise", exc |-> x, why |-> why]
Running == [kind |-> "running"]

\* The texts an element shows: "", "1", "1,0", "10"
Texts == {<<>>, <<"1">>, <<"1", ",", "0">>, <<"1", "0">>}

\* One answer of the driver to "resolve the locator within Tf, then use the
\* element": found at the delay-th poll or not found when the wait gives up
\* (one sleep after the last poll); used, the element is fine, is stale, is not
\* interactable yet, or has the click point covered.
NotFound(Tf) == [find |-> "notfound", delay |-> Tf + 1, use |-> "none", text |-> <<>>, flag |-> FALSE]
Found(d, u, t, b) == [find |-> "found", delay |-> d, use |-> u, text |-> t, flag |-> b]
FindAnswers(Tf) == {NotFound(Tf)} \cup {Found(d, "ok", <<>>, FALSE) : d \in 0..Tf}
TextAnswers(Tf) ==
    {NotFound(Tf)} \cup {Found(d, "stale", <<>>, FALSE) : d \in 0..Tf}
                   \cup {Found(d, "ok", t, FALSE) : d \in 0..Tf, t \in Texts}
FlagAnswers(Tf) ==
    {NotFound(Tf)} \cup {Found(d, "stale", <<>>, FALSE) : d \in 0..Tf}
                   \cup {Found(d, "ok", <<>>, b) : d \in 0..Tf, b \in BOOLEAN}
ClickAnswers(Tf) ==
    {NotFound(Tf)} \cup {Found(d, u, <<>>, FALSE) :
                            d \in 0..Tf, u \in {"ok", "stale", "notinteractable", "intercepted"}}

\* self.wait or WebDriverWait(driver, timeout): the timeout that applies
EffectiveTimeout(timeout) == IF timeout # NoTimeout THEN timeout ELSE InstTimeout

\* ---- the bodies the decorator wraps ----

\* ComponentPiece.get_text: return self.find().text
get_text(e) ==
    IF e.find = "notfound" THEN Raise(Timeout, "not found")
    ELSE IF e.use = "stale" THEN Raise(Stale, "")
    ELSE Return(Str(e.text))

\* ComponentPiece.is_displayed: find(timeout=0).is_displayed(), not found is False
is_displayed_unguarded(e) ==
    IF e.find = "notfound" THEN Raise(Timeout, "not found")
    ELSE IF e.use = "stale" THEN Raise(Stale, "")
    ELSE Return(Bool(e.flag))
is_displayed(e) ==
    IF e.find = "notfound" THEN Return(Bool(FALSE))
    ELSE IF e.use = "stale" THEN Raise(Stale, "")
    ELSE Return(Bool(e.flag))

\* ComponentPiece._click: find(timeout=0).click(); True, or False when the element
\* is not interactable yet
click_once_unguarded(e) ==
    IF e.find = "notfound" THEN Raise(Timeout, "not found")
    ELSE IF e.use = "stale" THEN Raise(Stale, "")
    ELSE IF e.use = "notinteractable" THEN Raise("ElementNotInteractableException", "")
    ELSE IF e.use = "intercepted" THEN Raise(Intercepted, "")
    ELSE Return(Bool(TRUE))
click_once(e) ==
    IF e.find = "notfound" THEN Raise(Timeout, "not found")
    ELSE IF e.use = "stale" THEN Raise(Stale, "")
    ELSE IF e.use = "notinteractable" THEN Return(Bool(FALSE))
    ELSE IF e.use = "intercepted" THEN Raise(Intercepted, "")
    ELSE Return(Bool(TRUE))

RetryOps == {"get_text", "is_displayed", "_click"}
Call(name, e) ==
    CASE name = "get_text" -> get_text(e)
      [] name = "is_displayed" -> is_displayed(e)
      [] name = "_click" -> click_once(e)
\* the timeout the body gives find(): self.wait for get_text, 0 for the others
FindTimeoutOf(name) == IF name = "get_text" THEN InstTimeout ELSE 0
AnswersFor(name) ==
    CASE name = "get_text" -> TextAnswers(FindTimeoutOf(name))
      [] name = "is_displayed" -> FlagAnswers(FindTimeoutOf(name))
      [] name = "_click" -> ClickAnswers(FindTimeoutOf(name))

\* ---- retry_on_stale_element ----

\* wrapper: with the loop at index a, an invocation that ended with res is passed
\* over (and followed by another one) when it raised staleness inside the for
\* loop; the invocation after the loop ("final attempt") ends the call whatever
\* it does.
RetryPassesOnce(a, res) == res.kind = "raise" /\ res.exc = Stale /\ a < 1
RetryPasses(a, res) == res.kind = "raise" /\ res.exc = Stale /\ a < RetryAttempts

\* ---- history ----

NoHist == [inv |-> 0, stales |-> 0, finds |-> 0, reads |-> 0, lastRead |-> NoneValue,
           polls |-> 0, sleeps |-> 0, clicks |-> 0, clicked |-> 0, refused |-> 0,
           lastRes |-> Running]

\* One invocation of a wrapped body was made and the driver answered e, giving res;
\* first: it is the first invocation of a wrapper call.
Invoked(h, e, res, first) ==
    [h EXCEPT !.inv = (IF first THEN 0 ELSE @) + 1,
              !.stales = (IF first THEN 0 ELSE @)
                         + (IF res.kind = "raise" /\ res.exc = Stale THEN 1 ELSE 0),
              !.finds = @ + 1,
              !.polls = @ + (IF first THEN 1 ELSE 0),
              !.lastRes = res]

PieceIdle ==
    /\ op = [name |-> "none"]
    /\ pc = "done"
    /\ attempt = 0
    /\ now = 0
    /\ endTime = 0
    /\ text = <<>>
    /\ seen = FALSE
    /\ outcome = Running
    /\ hist = NoHist

\* ---- a call of one retry-wrapped operation ----

RetryInit ==
    /\ op \in {[name |-> n] : n \in RetryOps}
    /\ pc = "call"
    /\ attempt = 0
    /\ now = 0
    /\ endTime = 0
    /\ text = <<>>
    /\ seen = FALSE
    /\ outcome = Running
    /\ hist = NoHist

\* wrapper: one pass of "try: return call(self, ...) except Stale...: pass", or the
\* final "return call(self, ...)"
Invoke ==
    \E e \in AnswersFor(op.name) :
        /\ pc = "call"
        /\ LET res == Call(op.name, e)
           IN /\ hist' = Invoked(hist, e, res, attempt = 0)
              /\ now' = now + e.delay
              /\ IF RetryPasses(attempt, res)
                 THEN attempt' = attempt + 1 /\ UNCHANGED <<pc, outcome>>
                 ELSE pc' = "done" /\ outcome' = res /\ UNCHANGED attempt
        /\ UNCHANGED <<op, endTime, text, seen>>

----------------------------------------------------------------------------
\* ComponentPiece.wait_on_text_condition

\* IAec.TextCondition / IAec.NumericCondition members, and some other object
Conditions == {"TextCondition.EQUALS", "TextCondition.DOES_NOT_EQUAL",
               "TextCondition.CONTAINS", "TextCondition.DOES_NOT_CONTAIN",
               "NumericCondition.EQUALS", "NumericCondition.DOES_NOT_EQUAL"}
OtherCondition == "other"

\* text_to_compare as the caller gives it: None, a str, an int
Comparands == {NoneValue, IntPiece(10)} \cup {StrPiece(t) : t \in Texts}
\* the explicit timeouts a caller gives, besides None
WaitTimeouts == {NoTimeout, 0, 1}

\* "needle in hay" for str
Contains(needle, hay) ==
    \E i \in 0..(Len(hay) - Len(needle)) : SubSeq(hay, i + 1, i + Len(needle)) = needle
\* s.replace(",", "")
StripCommas(s) == SelectSeq(s, LAMBDA c : c # ",")

\* The chain of comparisons at the end of compare_against_condition, for a
\* comparison value that is not None (already a str).
Unsupported(condition) == condition \notin Conditions
Satisfies(condition, cmp, txt) ==
    CASE condition = "TextCondition.EQUALS" -> cmp = txt
      [] condition = "TextCondition.DOES_NOT_EQUAL" -> cmp # txt
      [] condition = "TextCondition.CONTAINS" -> Contains(cmp, txt)
      [] condition = "TextCondition.DOES_NOT_CONTAIN" -> ~Contains(cmp, txt)
      [] condition = "NumericCondition.EQUALS" -> StripCommas(cmp) = StripCommas(txt)
      [] condition = "NumericCondition.DOES_NOT_EQUAL" -> StripCommas(cmp) # StripCommas(txt)
      [] OTHER -> FALSE

\* text_to_compare = str(text_to_compare) if text_to_compare is not None else ...
ComparandStr(c) == IF c.t = "none" THEN NoneValue ELSE Str(StrOf(c))

\* compare_against_condition, from the result got of self.get_text() on: the new
\* values of the nonlocals text and present_then_removed, and what the function
\* returns or raises (a not-found raised before any read succeeded is marked
\* should_raise).
compare_never_marks(got, cmp, condition) ==
    IF got.kind = "raise"
    THEN [res |-> got, text |-> text, seen |-> seen]
    ELSE [text |-> got.value.v, seen |-> TRUE,
          res |-> IF cmp.t = "none" THEN Return(got.value)
                  ELSE IF Unsupported(condition) THEN Raise(NotImplemented, "")
                  ELSE Return(Bool(Satisfies(condition, cmp.v, got.value.v)))]
compare_keeps_text(got, cmp, condition) ==
    IF got.kind = "raise"
    THEN [res |-> IF got.exc = Timeout /\ ~seen THEN Raise(Timeout, "should_raise") ELSE got,
          text |-> text, seen |-> seen]
    ELSE [text |-> IF seen THEN text ELSE got.value.v, seen |-> TRUE,
          res |-> IF cmp.t = "none" THEN Return(got.value)
                  ELSE IF Unsupported(condition) THEN Raise(NotImplemented, "")
                  ELSE Return(Bool(Satisfies(condition, cmp.v, got.value.v)))]
compare_unsupported_as_false(got, cmp, condition) ==
    IF got.kind = "raise"
    THEN [res |-> IF got.exc = Timeout /\ ~seen THEN Raise(Timeout, "should_raise") ELSE got,
          text |-> text, seen |-> seen]
    ELSE [text |-> got.value.v, seen |-> TRUE,
          res |-> IF cmp.t = "none" THEN Return(got.value)
                  ELSE Return(Bool(Satisfies(condition, cmp.v, got.value.v)))]
compare_against_condition(got, cmp, condition) ==
    IF got.kind = "raise"
    THEN [res |-> IF got.exc = Timeout /\ ~seen THEN Raise(Timeout, "should_raise") ELSE got,
          text |-> text, seen |-> seen]
    ELSE [text |-> got.value.v, seen |-> TRUE,
          res |-> IF cmp.t = "none" THEN Return(got.value)
                  ELSE IF Unsupported(condition) THEN Raise(NotImplemented, "")
                  ELSE Return(Bool(Satisfies(condition, cmp.v, got.value.v)))]

\* IAec.function_returns_true(custom_function, function_args).__call__: the
\* function's own result, its failures included
function_returns_true(res) == res

\* One pass of the loop of WebDriverWait.until, the method having ended with res at
\* time t: a failure leaves the wait at once (only NoSuchElementException is
\* ignored, which nothing here raises), a truthy value is returned, and after
\* anything else the wait sleeps one poll interval and gives up once the time is
\* past end_time.
Until(res, t) ==
    IF res.kind = "raise" THEN [next |-> "out", res |-> res, now |-> t, slept |-> 0]
    ELSE IF Truthy(res.value) THEN [next |-> "out", res |-> res, now |-> t, slept |-> 0]
    ELSE IF t + 1 > endTime
         THEN [next |-> "out", res |-> Raise(Timeout, "until"), now |-> t + 1, slept |-> 1]
         ELSE [next |-> "again", res |-> res, now |-> t + 1, slept |-> 1]

\* The try/except around cond_wait.until and the final "return text": what the
\* caller of wait_on_text_condition gets when until ended with res.
WaitEnds(res, txt) ==
    IF res.kind = "raise" /\ (res.exc # Timeout \/ res.why = "should_raise")
    THEN res
    ELSE Return(Str(txt))

WaitInit ==
    /\ op \in {[name |-> "wait_on_text_condition", text_to_compare |-> c,
                condition |-> k, timeout |-> t] :
                  c \in Comparands, k \in Conditions \cup {OtherCondition}, t \in WaitTimeouts}
    /\ pc = "until"
    /\ attempt = 0
    /\ now = 0
    /\ endTime = EffectiveTimeout(op.timeout)
    /\ text = <<>>
    /\ seen = FALSE
    /\ outcome = Running
    /\ hist = NoHist

\* One invocation of get_text's body inside one poll of cond_wait.until(...), and,
\* when the retry wrapper ends with it, the rest of the poll.
WaitPoll ==
    \E e \in TextAnswers(InstTimeout) :
        /\ pc = "until"
        /\ LET got == Call("get_text", e)
               h == Invoked(hist, e, got, attempt = 0)
               t1 == now + e.delay
           IN IF RetryPasses(attempt, got)
              THEN /\ attempt' = attempt + 1
                   /\ now' = t1
                   /\ hist' = h
                   /\ UNCHANGED <<pc, text, seen, outcome>>
              ELSE LET c == compare_against_condition(
                                got, ComparandStr(op.text_to_compare), op.condition)
                       u == Until(function_returns_true(c.res), t1)
                   IN /\ text' = c.text
                      /\ seen' = c.seen
                      /\ now' = u.now
                      /\ attempt' = 0
                      /\ hist' = [h EXCEPT !.sleeps = @ + u.slept,
                                           !.reads = @ + (IF got.kind = "return" THEN 1 ELSE 0),
                                           !.lastRead = IF got.kind = "return"
                                                        THEN got.value ELSE @]
                      /\ IF u.next = "again"
                         THEN UNCHANGED <<pc, outcome>>
                         ELSE pc' = "done" /\ outcome' = WaitEnds(u.res, c.text)
        /\ UNCHANGED <<op, endTime>>

----------------------------------------------------------------------------
\* ComponentPiece.click

\* the timeouts a caller gives click(), besides None
ClickTimeouts == {NoTimeout, 0, 2}

ClickInit ==
    /\ op \in {[name |-> "click", timeout |-> t, wait_after_click |-> w] :
                  t \in ClickTimeouts, w \in {0, 1}}
    /\ pc = "find"
    /\ attempt = 0
    /\ now = 0
    /\ endTime = 0
    /\ text = <<>>
    /\ seen = FALSE
    /\ outcome = Running
    /\ hist = NoHist

\* click: self.find(timeout=timeout), whose TimeoutException is not captured; then
\* wait.until(...) starts, and with it the wait's end_time.
ClickFind ==
    \E e \in FindAnswers(EffectiveTimeout(op.timeout)) :
        /\ pc = "find"
        /\ now' = now + e.delay
        /\ hist' = [hist EXCEPT !.finds = @ + 1]
        /\ IF e.find = "notfound"
           THEN /\ pc' = "done"
                /\ outcome' = Raise(Timeout, "not found")
                /\ UNCHANGED endTime
           ELSE /\ pc' = "until"
                /\ endTime' = now' + EffectiveTimeout(op.timeout)
                /\ UNCHANGED outcome
        /\ UNCHANGED <<op, attempt, text, seen>>

\* What click() gives its caller when wait.until(..., message=...) ended with res:
\* the wait's own timeout carries the message, any other failure is passed on,
\* and after a truthy value click sleeps wait_after_click and returns None.
ClickEnds(res) ==
    IF res.kind = "raise"
    THEN (IF res.exc = Timeout /\ res.why = "until"
          THEN Raise(Timeout, "The element never became clickable.")
          ELSE res)
    ELSE Return(NoneValue)

\* One invocation of _click's body inside one poll of wait.until(...), and, when
\* the retry wrapper ends with it, the rest of the poll.
ClickPoll ==
    \E e \in ClickAnswers(FindTimeoutOf("_click")) :
        /\ pc = "until"
        /\ LET got == Call("_click", e)
               h == [Invoked(hist, e, got, attempt = 0) EXCEPT
                        !.clicks = @ + (IF e.find = "found" THEN 1 ELSE 0),
                        !.clicked = @ + (IF e.find = "found" /\ e.use = "ok" THEN 1 ELSE 0),
                        !.refused = @ + (IF e.find = "found" /\ e.use = "notinteractable"
                                         THEN 1 ELSE 0)]
               t1 == now + e.delay
           IN IF RetryPasses(attempt, got)
              THEN /\ attempt' = attempt + 1
                   /\ now' = t1
                   /\ hist' = h
                   /\ UNCHANGED <<pc, outcome>>
              ELSE LET u == Until(function_returns_true(got), t1)
                   IN /\ attempt' = 0
                      /\ hist' = [h EXCEPT !.sleeps = @ + u.slept]
                      /\ IF u.next = "again"
                         THEN now' = u.now /\ UNCHANGED <<pc, outcome>>
                         ELSE /\ pc' = "done"
                              /\ outcome' = ClickEnds(u.res)
                              /\ now' = u.now + (IF u.res.kind = "return"
                                                 THEN op.wait_after_click ELSE 0)
        /\ UNCHANGED <<op, endTime, text, seen>>

----------------------------------------------------------------------------
\* ComponentPiece.click_with_offset: one call, under retry_on_stale_element.

\* the pixel offsets a caller gives
Offsets == {0, 5}

NoCapture == [blocked |-> 0, later |-> 0, shots |-> 0]

\* One answer of the driver to the except branch: self.find() under self.wait,
\* then the screenshot of the element found.
CaptureAnswers ==
    {NotFound(InstTimeout)} \cup {Found(d, u, <<>>, FALSE) : d \in 0..InstTimeout, u \in {"ok", "stale"}}

\* IASelenium(self.driver).take_screenshot_of_element(element): the screenshot is
\* taken at once, or the element has gone stale under it
take_screenshot_of_element(c) ==
    IF c.use = "stale" THEN Raise(Stale, "") ELSE Return(NoneValue)

\* except ElementClickInterceptedException as ecie: screenshot of self.find(), then
\* raise ecie
on_intercepted(c) ==
    IF c.find = "notfound" THEN Raise(Timeout, "not found")
    ELSE IF take_screenshot_of_element(c).kind = "raise" THEN take_screenshot_of_element(c)
    ELSE Raise(Intercepted, "")

\* the body: ActionChains(...).move_to_element_with_offset(self.find(), x, y)
\* .click().perform() inside try / except ElementClickInterceptedException
click_with_offset(e, c) ==
    IF e.find = "notfound" THEN Raise(Timeout, "not found")
    ELSE IF e.use = "stale" THEN Raise(Stale, "")
    ELSE IF e.use = "notinteractable" THEN Raise("ElementNotInteractableException", "")
    ELSE IF e.use = "intercepted" THEN on_intercepted(c)
    ELSE Return(NoneValue)

OffsetIdle == capture = NoCapture

OffsetInit ==
    /\ op \in {[name |-> "click_with_offset", x_offset |-> x, y_offset |-> y] :
                  x \in Offsets, y \in Offsets}
    /\ pc = "call"
    /\ attempt = 0
    /\ now = 0
    /\ endTime = 0
    /\ text = <<>>
    /\ seen = FALSE
    /\ outcome = Running
    /\ hist = NoHist
    /\ capture = NoCapture

\* wrapper: one invocation of the body
OffsetClick ==
    /\ pc = "call"
    /\ \E e \in ClickAnswers(InstTimeout), c \in CaptureAnswers :
        LET res == click_with_offset(e, c)
            tried == e.find = "found"
            blocked == tried /\ e.use = "intercepted"
        IN /\ hist' = [Invoked(hist, e, res, attempt = 0) EXCEPT
                          !.finds = @ + (IF blocked THEN 1 ELSE 0),
                          !.clicks = @ + (IF tried THEN 1 ELSE 0),
                          !.clicked = @ + (IF tried /\ e.use = "ok" THEN 1 ELSE 0)]
           /\ capture' = [blocked |-> capture.blocked + (IF blocked THEN 1 ELSE 0),
                          later |-> capture.later
                                    + (IF tried /\ capture.blocked > 0 THEN 1 ELSE 0),
                          shots |-> capture.shots
                                    + (IF blocked /\ c.find = "found" THEN 1 ELSE 0)]
           /\ now' = now + e.delay + (IF blocked THEN c.delay ELSE 0)
           /\ IF RetryPasses(attempt, res)
              THEN attempt' = attempt + 1 /\ UNCHANGED <<pc, outcome>>
              ELSE pc' = "done" /\ outcome' = res /\ UNCHANGED attempt
    /\ UNCHANGED <<op, endTime, text, seen>>
----------------------------------------------------------------------------
\* Operations that read text and catch TimeoutException themselves:
\* CommonTree.get_text_of_top_level_items, CommonTree.get_text_of_all_items_in_tree
\* and BarcodeScanner.get_text.

\* The most elements a find_all hands back.
MaxListed == 2

List(s) == [t |-> "list", v |-> s]

\* the timeouts a caller gives get_text_of_all_items_in_tree
ListTimeouts == {0, 2}

ListOps ==
    {[name |-> "get_text_of_top_level_items", timeout |-> NoTimeout]}
    \cup {[name |-> "get_text_of_all_items_in_tree", timeout |-> t] : t \in ListTimeouts}
LabelOps == {[name |-> "BarcodeScanner.get_text"]}

\* One answer of the driver to find_all within Tf and the reads of .text that
\* follow: no element within Tf, or at least one element at the delay-th poll,
\* each with its text, one of them possibly stale when read.
ListsOfTexts == UNION {[1..n -> Texts] : n \in 1..MaxListed}
ListAnswers(Tf) ==
    {[find |-> "notfound", delay |-> Tf + 1, use |-> "none", texts |-> <<>>]}
    \cup {[find |-> "found", delay |-> d, use |-> u, texts |-> ts] :
             d \in 0..Tf, u \in {"ok", "stale"}, ts \in ListsOfTexts}

\* [_.text for _ in piece.find_all(timeout)]
texts_of_all(e) ==
    IF e.find = "notfound" THEN Raise(Timeout, "not found")
    ELSE IF e.use = "stale" THEN Raise(Stale, "")
    ELSE Return(List([k \in DOMAIN e.texts |-> Str(e.texts[k])]))

\* try: return ... except TimeoutException: return <default>
or_default(res, default) ==
    IF res.kind = "raise" /\ res.exc = Timeout THEN Return(default) ELSE res

DefaultsInit ==
    /\ op \in ListOps \cup LabelOps
    /\ pc = "call"
    /\ attempt = 0
    /\ now = 0
    /\ endTime = 0
    /\ text = <<>>
    /\ seen = FALSE
    /\ outcome = Running
    /\ hist = NoHist

\* get_text_of_top_level_items / get_text_of_all_items_in_tree: the whole call
ListTexts ==
    /\ pc = "call"
    /\ op \in ListOps
    /\ \E e \in ListAnswers(EffectiveTimeout(op.timeout)) :
          LET res == texts_of_all(e)
          IN /\ hist' = [Invoked(hist, e, res, TRUE) EXCEPT
                            !.reads = IF res.kind = "return" THEN Len(e.texts) ELSE 0]
             /\ now' = now + e.delay
             /\ outcome' = or_default(res, List(<<>>))
    /\ pc' = "done"
    /\ UNCHANGED <<op, attempt, endTime, text, seen>>

\* BarcodeScanner.get_text: one invocation of self._label.get_text() under its
\* retry wrapper, and, when the wrapper ends with it, the except clause
LabelText ==
    /\ pc = "call"
    /\ op \in LabelOps
    /\ \E e \in AnswersFor("get_text") :
          LET res == Call("get_text", e)
          IN /\ hist' = [Invoked(hist, e, res, attempt = 0) EXCEPT
                            !.reads = @ + (IF res.kind = "return" THEN 1 ELSE 0)]
             /\ now' = now + e.delay
             /\ IF RetryPasses(attempt, res)
                THEN attempt' = attempt + 1 /\ UNCHANGED <<pc, outcome>>
                ELSE pc' = "done" /\ outcome' = or_default(res, NoneValue) /\ UNCHANGED attempt
    /\ UNCHANGED <<op, endTime, text, seen>>
----------------------------------------------------------------------------
\* CommonTextInput (Components/Common/TextInput.py): get_text, overridden without
\* the retry decorator, and the inherited wait_on_text_condition that polls it.

\* find().tag_name in _needs_to_get_input_element: the component is not found, its
\* element is stale when the tag is read, or the tag
TagAnswers == {"notfound", "stale", "input", "textarea", "div"}

\* _needs_to_get_input_element
needs_to_get_input_element(tag) == tag \notin {"input", "textarea"}

\* the wait of the piece get_text reads from: self, or self._internal_input, which
\* is built with timeout=0
InputFindTimeout(tag) == IF needs_to_get_input_element(tag) THEN 0 ELSE InstTimeout

\* CommonTextInput.get_text: input_component.find().get_attribute("value")
text_input_get_text(tag, e) ==
    IF tag = "notfound" THEN Raise(Timeout, "not found")
    ELSE IF tag = "stale" THEN Raise(Stale, "")
    ELSE IF e.find = "notfound" THEN Raise(Timeout, "not found")
    ELSE IF e.use = "stale" THEN Raise(Stale, "")
    ELSE Return(Str(e.text))

InputInit ==
    /\ op \in {[name |-> "CommonTextInput.get_text"]}
              \cup {[name |-> "CommonTextInput.wait_on_text_condition", text_to_compare |-> c,
                     condition |-> k, timeout |-> t] :
                       c \in Comparands, k \in Conditions \cup {OtherCondition},
                       t \in WaitTimeouts}
    /\ pc = "call"
    /\ attempt = 0
    /\ now = 0
    /\ endTime = IF "timeout" \in DOMAIN op THEN EffectiveTimeout(op.timeout) ELSE 0
    /\ text = <<>>
    /\ seen = FALSE
    /\ outcome = Running
    /\ hist = NoHist

\* CommonTextInput.get_text called directly: the whole call
InputGetText ==
    /\ pc = "call"
    /\ op.name = "CommonTextInput.get_text"
    /\ \E tag \in TagAnswers :
          \E e \in TextAnswers(InputFindTimeout(tag)) :
             LET res == text_input_get_text(tag, e)
             IN /\ hist' = [Invoked(hist, e, res, TRUE) EXCEPT
                               !.reads = @ + (IF res.kind = "return" THEN 1 ELSE 0)]
                /\ now' = now + (IF tag \in {"notfound", "stale"} THEN 0 ELSE e.delay)
                /\ outcome' = res
    /\ pc' = "done"
    /\ UNCHANGED <<op, attempt, endTime, text, seen>>

\* One poll of cond_wait.until(...) in wait_on_text_condition on a CommonTextInput:
\* self.get_text() is the override, then compare_against_condition and the wait
InputWaitPoll ==
    /\ pc = "call"
    /\ op.name = "CommonTextInput.wait_on_text_condition"
    /\ \E tag \in TagAnswers :
          \E e \in TextAnswers(InputFindTimeout(tag)) :
             LET got == text_input_get_text(tag, e)
                 h == Invoked(hist, e, got, TRUE)
                 t1 == now + (IF tag \in {"notfound", "stale"} THEN 0 ELSE e.delay)
                 c == compare_against_condition(
                          got, ComparandStr(op.text_to_compare), op.condition)
                 u == Until(function_returns_true(c.res), t1)
             IN /\ text' = c.text
                /\ seen' = c.seen
                /\ now' = u.now
                /\ hist' = [h EXCEPT !.polls = hist.polls + 1,
                                     !.sleeps = @ + u.slept,
                                     !.reads = @ + (IF got.kind = "return" THEN 1 ELSE 0),
                                     !.lastRead = IF got.kind = "return"
                                                  THEN got.value ELSE @]
                /\ IF u.next = "again"
                   THEN UNCHANGED <<pc, outcome>>
                   ELSE pc' = "done" /\ outcome' = WaitEnds(u.res, c.text)
    /\ UNCHANGED <<op, attempt, endTime>>
----------------------------------------------------------------------------
\* Tree.py: Item and CommonTree.expand_to_item / set_expansion_state.
\* An Item is written as the chain of labels of its ancestry and itself, root
\* first; the k-th entry of its ancestry is the chain's prefix of length k.

\* The deepest Item asked for.
MaxDepth == 3
\* The transient failures the driver may produce during one outermost call.
MaxFaults == 2

\* expand_to_item(..., max_attempts=3, delay_between_attempts=1.0)
DefaultMaxAttempts == 3
DefaultDelay == 1
\* _get_item(..., timeout=5)
ItemTimeout == 5

Letters == <<"a", "b", "c", "d", "e">>
\* the Item of depth n: "a", "a"/"b", "a"/"b"/"c", ...
ChainOf(n) == [k \in 1..n |-> <<Letters[k]>>]
Prefix(c, k) == SubSeq(c, 1, k)

\* Item.get_ancestry(), as _build_ancestry left it
get_ancestry(c) == [k \in 1..(Len(c) - 1) |-> Prefix(c, k)]
\* Item._build_path / __str__
Path(c) == Join(<<"/">>, c)
\* Item._build_locator: one node selector per label, then the tree item
Quoted(label) == <<"\"">> \o label \o <<"\"">>
NodeCss(label) ==
    <<"[", "c", "l", "a", "s", "s", "*", "=", "\"", "-", "n", "o", "d", "e", "\"", "]">>
    \o <<"[", "d", "a", "t", "a", "-", "l", "a", "b", "e", "l", "=">> \o Quoted(label) \o <<"]">>
TerminalCss(label) ==
    <<".", "t", "r", "e", "e", "-", "i", "t", "e", "m">>
    \o <<"[", "d", "a", "t", "a", "-", "l", "a", "b", "e", "l", "=">> \o Quoted(label) \o <<"]">>
get_locator_leaf_item_only(c) ==
    Join(<<" ">>, [k \in 1..(Len(c) - 1) |-> NodeCss(c[k])] \o <<TerminalCss(c[Len(c)])>>)
get_locator(c) ==
    Join(<<" ">>, [k \in 1..Len(c) |-> NodeCss(c[k])] \o <<TerminalCss(c[Len(c)])>>)

\* ---- the document ----

\* The element of node c is in the document and shown: the node exists and every
\* node above it exists and is expanded.
Displayed(c) ==
    \A k \in 1..Len(c) : Prefix(c, k) \in nodes /\ (k < Len(c) => Prefix(c, k) \in expanded)
\* svg.expand-icon under the element of node c
IconPresent(c) == Displayed(c) /\ c \in folders

\* ---- CommonTree's caches ----

\* _get_item: the piece kept under str(item), built from the Item's locator when
\* the path was not there yet
get_item(its, c, timeout) ==
    IF Path(c) \in DOMAIN its THEN its
    ELSE its @@ (Path(c) :> [locator |-> get_locator(c), of |-> c, timeout |-> timeout])
\* _get_expansion_icon: the icon kept under str(item), built under the locator
\* list of the piece _get_item gives
get_expansion_icon(ics, its, c) ==
    IF Path(c) \in DOMAIN ics THEN ics
    ELSE ics @@ (Path(c) :> [of |-> get_item(its, c, ItemTimeout)[Path(c)].of])

\* ---- the calls in progress ----

\* where an attempt starts: at the first entry of the ancestry, or at the final
\* check when the ancestry is empty
StartPhase(c) == IF Len(c) > 1 THEN "nest" ELSE "check"
NewFrame(c, max, delay) ==
    [item |-> c, max |-> max, delay |-> delay, attempt |-> 1, idx |-> 1,
     phase |-> StartPhase(c), kind |-> "expand", should |-> TRUE, saw |-> "none",
     entry |-> 0]
\* a call set_expansion_state(item, should_be_expanded) made from outside: it has
\* no loop and no try of its own
SetFrame(c, should_be_expanded) ==
    [NewFrame(c, 1, 0) EXCEPT !.kind = "set", !.should = should_be_expanded,
                              !.phase = "nest"]
\* the Item the set_expansion_state in progress in f is about: the path_item of
\* the walk, or the Item the outside call was given
Target_same_item(f) == f.item
Target(f) == IF f.kind = "set" THEN f.item ELSE get_ancestry(f.item)[f.idx]
\* what item_is_expanded returned
Observed(v) == IF v THEN "expanded" ELSE "collapsed"
\* "if self.item_is_expanded(item=item) != should_be_expanded:"
needs_click_always(observed, should_be_expanded) == TRUE
needs_click(observed, should_be_expanded) == observed # should_be_expanded
\* the next pass of "for attempt in range(1, max_attempts + 1)"
RestartResuming(f) == [f EXCEPT !.attempt = @ + 1]
Restart(f) ==
    [f EXCEPT !.attempt = @ + 1, !.idx = 1, !.phase = StartPhase(f.item), !.saw = "none",
              !.entry = 0]
\* after set_expansion_state(path_item) is done: the next path_item, or the check
Advance(f) ==
    IF f.idx < Len(f.item) - 1
    THEN [f EXCEPT !.idx = @ + 1, !.phase = "nest", !.saw = "none", !.entry = 0]
    ELSE [f EXCEPT !.idx = Len(f.item), !.phase = "check", !.saw = "none", !.entry = 0]

Top == stack[Len(stack)]
Below == SubSeq(stack, 1, Len(stack) - 1)
SetTop(f) == [stack EXCEPT ![Len(stack)] = f]

NoEvent == [kind |-> "none", depth |-> 0, attempt |-> 0, max |-> 0, at |-> 0,
            before |-> 0, check |-> "none", ended |-> <<>>]
Ev(kind, f, check) ==
    [kind |-> kind, depth |-> Len(stack), attempt |-> f.attempt, max |-> f.max,
     at |-> f.idx, before |-> slept, check |-> check, ended |-> <<>>]
\* set_expansion_state returned: what it was asked, what it observed and how often
\* it clicked
SetEv(f, saw, clicked) ==
    [kind |-> "setdone", depth |-> Len(stack), target |-> Target(f), should |-> f.should,
     saw |-> saw, clicked |-> clicked, quiet |-> faults' = MaxFaults]

\* "except (TimeoutException, StaleElementReferenceException)": in the innermost
\* call, then in each call the TimeoutException it raises reaches. Gives the
\* calls left, the time slept and the event.
RECURSIVE Unwind(_, _)
Unwind(stk, ended) ==
    IF stk = <<>>
    THEN [stack |-> <<>>, sleep |-> 0,
          ev |-> [NoEvent EXCEPT !.kind = "failed", !.before = slept, !.ended = ended]]
    ELSE LET f == stk[Len(stk)]
         IN IF f.attempt >= f.max
            THEN Unwind(SubSeq(stk, 1, Len(stk) - 1),
                        ended \o <<[depth |-> Len(stk), attempt |-> f.attempt, max |-> f.max]>>)
            ELSE [stack |-> [stk EXCEPT ![Len(stk)] = Restart(f)], sleep |-> f.delay,
                  ev |-> [kind |-> "restart", depth |-> Len(stk), attempt |-> f.attempt,
                          max |-> f.max, at |-> f.idx, before |-> slept, check |-> "none",
                          ended |-> ended]]

ExpansionFailed == Raise(Timeout, "Could not expand ancestry to display item")

\* A failure the except clause names was raised in the innermost call.
Caught ==
    LET u == Unwind(stack, <<>>)
    IN /\ stack' = u.stack
       /\ slept' = slept + u.sleep
       /\ event' = u.ev
       /\ treeOutcome' = IF u.stack = <<>> THEN ExpansionFailed ELSE treeOutcome
\* A failure the except clause does not name leaves every call.
Escaped(res) ==
    /\ stack' = <<>>
    /\ event' = Ev("escaped", Top, "none")
    /\ treeOutcome' = res
    /\ UNCHANGED slept
\* The innermost call returns (break, or the for loop is used up): its caller,
\* set_expansion_state, goes on with item_is_expanded.
Returned(check) ==
    /\ stack' = Below
    /\ event' = Ev("returned", Top, check)
    /\ treeOutcome' = IF Len(stack) = 1 THEN Return(NoneValue) ELSE treeOutcome
    /\ UNCHANGED slept
Stepped(f) ==
    /\ stack' = SetTop(f)
    /\ event' = Ev("step", Top, "none")
    /\ UNCHANGED <<slept, treeOutcome>>
\* set_expansion_state returns: the walk of its caller goes on, or the call made
\* from outside is over
SetDone(saw, clicked) ==
    /\ event' = SetEv(Top, saw, clicked)
    /\ IF Top.kind = "set"
       THEN stack' = Below /\ treeOutcome' = Return(NoneValue)
       ELSE stack' = SetTop(Advance(Top)) /\ UNCHANGED treeOutcome
    /\ UNCHANGED slept

FaultKinds == {"none", "notfound", "stale", "intercepted"}
Spend(flt) == faults' = IF flt = "none" THEN faults ELSE faults - 1

\* find(timeout=0).is_displayed() inside item_is_displayed's try/except
item_is_displayed(there, flt) ==
    IF ~there \/ flt = "notfound" THEN Return(Bool(FALSE))
    ELSE IF flt = "stale" THEN Raise(Stale, "")
    ELSE Return(Bool(TRUE))
\* find(timeout=0).get_attribute("class") inside item_is_expanded's try/except
item_is_expanded(there, cls, flt) ==
    IF ~there \/ flt = "notfound" THEN Return(Bool(FALSE))
    ELSE IF flt = "stale" THEN Raise(Stale, "")
    ELSE Return(Bool(cls))
\* icon.click(wait_after_click=0.5) inside set_expansion_state's try/except
click_icon(there, flt) ==
    IF ~there \/ flt = "notfound"
    THEN Raise(Timeout, "does not contain an expand/collapse icon")
    ELSE IF flt = "stale" THEN Raise(Stale, "")
    ELSE IF flt = "intercepted" THEN Raise(Intercepted, "")
    ELSE Return(NoneValue)

TreeIdle ==
    /\ nodes = {}
    /\ folders = {}
    /\ expanded = {}
    /\ items = <<>>
    /\ icons = <<>>
    /\ stack = <<>>
    /\ faults = 0
    /\ slept = 0
    /\ event = NoEvent
    /\ clicksOn = <<>>
    /\ treeOutcome = Running

\* A tree holding the chain down to some depth, any of it expanded, and a call
\* expand_to_item(item, max_attempts, delay_between_attempts) just entered.
TreeInit ==
    /\ \E have \in 0..MaxDepth :
          /\ nodes = {ChainOf(k) : k \in 1..have}
          /\ folders \in {{ChainOf(k) : k \in 1..(have - 1)}, nodes}
    /\ expanded \in SUBSET folders
    /\ items = <<>>
    /\ icons = <<>>
    /\ \E n \in 1..MaxDepth, max \in {1, 2}, delay \in {0, 2} :
          stack = <<NewFrame(ChainOf(n), max, delay)>>
    /\ faults = MaxFaults
    /\ slept = 0
    /\ event = NoEvent
    /\ clicksOn = [c \in {ChainOf(k) : k \in 1..MaxDepth} |-> 0]
    /\ treeOutcome = Running

\* The same trees, and a call set_expansion_state(item, should_be_expanded) just
\* entered from outside.
ExpansionInit ==
    /\ \E have \in 0..MaxDepth :
          /\ nodes = {ChainOf(k) : k \in 1..have}
          /\ folders \in {{ChainOf(k) : k \in 1..(have - 1)}, nodes}
    /\ expanded \in SUBSET folders
    /\ items = <<>>
    /\ icons = <<>>
    /\ \E n \in 1..MaxDepth, should_be_expanded \in BOOLEAN :
          stack = <<SetFrame(ChainOf(n), should_be_expanded)>>
    /\ faults = MaxFaults
    /\ slept = 0
    /\ event = NoEvent
    /\ clicksOn = [c \in {ChainOf(k) : k \in 1..MaxDepth} |-> 0]
    /\ treeOutcome = Running

\* "self.set_expansion_state(item=path_item, should_be_expanded=True)" is entered,
\* and in it "self.expand_to_item(item=item)" with the default arguments.
TreeNest ==
    /\ stack # <<>>
    /\ Top.phase = "nest"
    /\ stack' = SetTop([Top EXCEPT !.phase = "isexp", !.saw = "none",
                                   !.entry = clicksOn[Target(Top)]])
                \o <<NewFrame(Target(Top), DefaultMaxAttempts, DefaultDelay)>>
    /\ event' = Ev("step", Top, "none")
    /\ UNCHANGED <<nodes, folders, expanded, items, icons, faults, slept, clicksOn,
                   treeOutcome>>

\* "if self.item_is_displayed(item=item): break", and the end of the attempt
TreeCheck ==
    \E flt \in {"none", "notfound", "stale"} :
        /\ stack # <<>>
        /\ Top.phase = "check"
        /\ flt # "none" => faults > 0
        /\ LET its == get_item(items, Top.item, ItemTimeout)
               there == Displayed(its[Path(Top.item)].of)
               res == item_is_displayed(there, flt)
           IN /\ flt = "stale" => there
              /\ items' = its
              /\ Spend(flt)
              /\ IF res.kind = "raise" THEN Caught
                 ELSE IF res.value.v THEN Returned("true")
                 ELSE IF Top.attempt < Top.max
                      THEN /\ stack' = SetTop(Restart(Top))
                           /\ event' = Ev("again", Top, "false")
                           /\ UNCHANGED <<slept, treeOutcome>>
                      ELSE Returned("false")
        /\ UNCHANGED <<nodes, folders, expanded, icons, clicksOn>>

\* "if self.item_is_expanded(item=item) != should_be_expanded:"
TreeIsExpanded ==
    \E flt \in {"none", "notfound", "stale"} :
        /\ stack # <<>>
        /\ Top.phase = "isexp"
        /\ flt # "none" => faults > 0
        /\ LET c == Target(Top)
               ics == get_expansion_icon(icons, items, c)
               its == get_item(items, c, ItemTimeout)
               target == ics[Path(c)].of
               res == item_is_expanded(IconPresent(target), target \in expanded, flt)
           IN /\ flt = "stale" => IconPresent(target)
              /\ items' = its
              /\ icons' = ics
              /\ Spend(flt)
              /\ IF res.kind = "raise"
                 THEN IF Top.kind = "set" THEN Escaped(res) ELSE Caught
                 ELSE IF needs_click(res.value.v, Top.should)
                      THEN Stepped([Top EXCEPT !.phase = "click",
                                               !.saw = Observed(res.value.v)])
                      ELSE SetDone(Observed(res.value.v), clicksOn[c] - Top.entry)
        /\ UNCHANGED <<nodes, folders, expanded, clicksOn>>

\* "self._get_expansion_icon(item=item).click(wait_after_click=0.5)"
TreeClick ==
    \E flt \in FaultKinds :
        /\ stack # <<>>
        /\ Top.phase = "click"
        /\ flt # "none" => faults > 0
        /\ LET c == Target(Top)
               target == icons[Path(c)].of
               res == click_icon(IconPresent(target), flt)
           IN /\ flt \in {"stale", "intercepted"} => IconPresent(target)
              /\ Spend(flt)
              /\ IF res.kind = "return"
                 THEN /\ expanded' = IF target \in expanded THEN expanded \ {target}
                                     ELSE expanded \cup {target}
                      /\ clicksOn' = [clicksOn EXCEPT ![target] = @ + 1]
                      /\ SetDone(Top.saw, clicksOn'[c] - Top.entry)
                 ELSE /\ UNCHANGED <<expanded, clicksOn>>
                      /\ IF res.exc = Intercepted \/ Top.kind = "set"
                         THEN Escaped(res) ELSE Caught
        /\ UNCHANGED <<nodes, folders, items, icons>>

----------------------------------------------------------------------------
\* Tree.py: CommonTree.multi_select, on a tree nothing has been asked of yet.

\* The longest list of Items given to multi_select.
MaxItems == 2

\* Items whose labels are "a", "a/b" and "b": two of the three have the path "a/b".
La == <<"a">>
Lb == <<"b">>
Lab == <<"a", "/", "b">>
SelItems == {<<La>>, <<Lab>>, <<La, Lb>>}

\* Keys.SHIFT, or Keys.COMMAND / Keys.CONTROL by sys.platform
ModKey(inclusive, darwin) ==
    IF inclusive THEN "SHIFT" ELSE IF darwin THEN "COMMAND" ELSE "CONTROL"

\* The actions ActionChains queues, by what they make the browser do.
KeyDown(k) == [type |-> "key_down", key |-> k, on |-> <<>>]
KeyUp(k) == [type |-> "key_up", key |-> k, on |-> <<>>]
Click(c) == [type |-> "click", key |-> "", on |-> c]
Pause == [type |-> "pause", key |-> "", on |-> <<>>]

\* piece_list = [self._get_item(item=item, timeout=timeout) for item in items]:
\* the cache after the first n items, and the pieces
RECURSIVE CacheAfter(_, _, _, _)
CacheAfter(its, list, n, timeout) ==
    IF n = 0 THEN its
    ELSE get_item(CacheAfter(its, list, n - 1, timeout), list[n], timeout)
PieceList(its, list, timeout) ==
    [i \in 1..Len(list) |-> CacheAfter(its, list, i, timeout)[Path(list[i])]]

\* the queue up to, and without, the k-th click
RECURSIVE UpToClick(_, _)
UpToClick(q, k) ==
    IF q = <<>> THEN <<>>
    ELSE IF Head(q).type = "click"
         THEN IF k = 1 THEN <<>> ELSE <<Head(q)>> \o UpToClick(Tail(q), k - 1)
         ELSE <<Head(q)>> \o UpToClick(Tail(q), k)

SelIdle ==
    /\ sel = [pc |-> "none"]
    /\ chain = <<>>
    /\ gesture = <<>>

\* A tree showing any of the three items, and multi_select(items,
\* inclusive_multi_selection, timeout) just entered.
SelInit ==
    /\ nodes \in SUBSET SelItems
    /\ folders = nodes \cap {<<La>>}
    /\ expanded \in SUBSET folders
    /\ items = <<>>
    /\ icons = <<>>
    /\ stack = <<>>
    /\ faults = MaxFaults
    /\ slept = 0
    /\ event = NoEvent
    /\ clicksOn = <<>>
    /\ treeOutcome = Running
    /\ \E n \in 1..MaxItems :
       \E list \in [1..n -> SelItems], inclusive \in BOOLEAN, darwin \in BOOLEAN,
          timeout \in {1, ItemTimeout} :
          sel = [pc |-> "begin", items |-> list, inclusive |-> inclusive,
                 darwin |-> darwin, timeout |-> timeout, i |-> 1, pieces |-> <<>>]
    /\ chain = <<>>
    /\ gesture = <<>>

\* An earlier operation on the same tree, before multi_select is called:
\* item_is_displayed(item), which asks _get_item(item=item) for the piece
SelEarlier ==
    \E c \in SelItems :
        /\ sel.pc = "begin"
        /\ Path(c) \notin DOMAIN items
        /\ items' = get_item(items, c, ItemTimeout)
        /\ UNCHANGED <<nodes, folders, expanded, icons, stack, faults, slept, event, clicksOn,
                       treeOutcome, sel, chain, gesture>>

\* actions.key_down(mod_key), and piece_list
SelBegin ==
    /\ sel.pc = "begin"
    /\ chain' = <<KeyDown(ModKey(sel.inclusive, sel.darwin))>>
    /\ items' = CacheAfter(items, sel.items, Len(sel.items), sel.timeout)
    /\ sel' = [sel EXCEPT !.pc = "find",
                          !.pieces = PieceList(items, sel.items, sel.timeout)]
    /\ UNCHANGED <<nodes, folders, expanded, icons, stack, faults, slept, event, clicksOn,
                   treeOutcome, gesture>>

\* actions.click(on_element=piece.find()).pause(1), for the next piece
SelFind ==
    \E flt \in {"none", "notfound"} :
        /\ sel.pc = "find"
        /\ flt # "none" => faults > 0
        /\ Spend(flt)
        /\ LET target == sel.pieces[sel.i].of
           IN IF Displayed(target) /\ flt = "none"
              THEN /\ chain' = chain \o <<Click(target), Pause>>
                   /\ sel' = [sel EXCEPT !.i = @ + 1,
                                         !.pc = IF sel.i = Len(sel.items)
                                                THEN "perform" ELSE "find"]
                   /\ UNCHANGED treeOutcome
              ELSE /\ sel' = [sel EXCEPT !.pc = "done"]
                   /\ treeOutcome' = Raise(Timeout, "not found")
                   /\ UNCHANGED chain
        /\ UNCHANGED <<nodes, folders, expanded, items, icons, stack, slept, event,
                       clicksOn, gesture>>

\* actions.key_up(mod_key); actions.perform(); self.wait_some_time(1). An element
\* found before may be stale when its click comes up.
SelPerform ==
    \E k \in 0..Len(sel.items) :
        /\ sel.pc = "perform"
        /\ k > 0 => faults > 0
        /\ Spend(IF k > 0 THEN "stale" ELSE "none")
        /\ LET q == chain \o <<KeyUp(ModKey(sel.inclusive, sel.darwin))>>
           IN /\ chain' = q
              /\ gesture' = IF k = 0 THEN q ELSE UpToClick(q, k)
        /\ treeOutcome' = IF k = 0 THEN Return(NoneValue) ELSE Raise(Stale, "")
        /\ sel' = [sel EXCEPT !.pc = "done"]
        /\ UNCHANGED <<nodes, folders, expanded, items, icons, stack, slept, event,
                       clicksOn>>

----------------------------------------------------------------------------
\* The probe accessors: ComponentPiece.is_displayed,
\* BasicPerspectiveComponent.quality_overlay_is_displayed and
\* CommonTree.item_is_displayed. Each resolves its locator with find(timeout=0)
\* inside "try: ... except TimeoutException: return False".

ProbeOps == {"is_displayed", "quality_overlay_is_displayed", "item_is_displayed"}

\* quality_overlay_is_displayed: self._quality_overlay_state_div.find(timeout=0)
\* is not None; the element found is not used
quality_overlay_is_displayed(e) ==
    IF e.find = "notfound" THEN Return(Bool(FALSE)) ELSE Return(Bool(TRUE))

\* what one find(timeout=0) and the use of its element came to
AnswerKind(e) == IF e.find = "notfound" THEN "notfound" ELSE e.use
ItemAnswerKind(there, flt) == IF ~there \/ flt = "notfound" THEN "notfound" ELSE flt

ProbeIdle == probed = <<>>

\* A tree holding the chain down to some depth, any of it expanded, no piece of
\* an Item built yet, and a probe accessor just called.
ProbeInit ==
    /\ op \in {[name |-> n] : n \in ProbeOps}
    /\ pc = "call"
    /\ attempt = 0
    /\ now = 0
    /\ endTime = 0
    /\ text = <<>>
    /\ seen = FALSE
    /\ outcome = Running
    /\ hist = NoHist
    /\ probed = <<>>
    /\ \E have \in 0..MaxDepth :
          /\ nodes = {ChainOf(k) : k \in 1..have}
          /\ folders \in {{ChainOf(k) : k \in 1..(have - 1)}, nodes}
    /\ expanded \in SUBSET folders
    /\ items = <<>>
    /\ icons = <<>>
    /\ stack = <<>>
    /\ faults = 0
    /\ slept = 0
    /\ event = NoEvent
    /\ clicksOn = <<>>
    /\ treeOutcome = Running

\* is_displayed under @retry_on_stale_element(): one pass of the wrapper's loop,
\* or its final invocation
ProbeIsDisplayed ==
    /\ pc = "call"
    /\ op.name = "is_displayed"
    /\ \E e \in FlagAnswers(0) :
          LET res == is_displayed(e)
          IN /\ hist' = Invoked(hist, e, res, attempt = 0)
             /\ probed' = Append(probed, AnswerKind(e))
             /\ now' = now + e.delay
             /\ IF RetryPasses(attempt, res)
                THEN attempt' = attempt + 1 /\ UNCHANGED <<pc, outcome>>
                ELSE pc' = "done" /\ outcome' = res /\ UNCHANGED attempt
    /\ UNCHANGED <<op, endTime, text, seen>>

\* item_is_displayed(item): self._get_item(item=item).find(timeout=0).is_displayed()
ProbeItemIsDisplayed ==
    /\ pc = "call"
    /\ op.name = "item_is_displayed"
    /\ \E n \in 1..MaxDepth, flt \in {"ok", "notfound", "stale"} :
          LET c == ChainOf(n)
              res == item_is_displayed(Displayed(c), flt)
          IN /\ items' = get_item(items, c, ItemTimeout)
             /\ op' = [name |-> op.name, item |-> c]
             /\ probed' = Append(probed, ItemAnswerKind(Displayed(c), flt))
             /\ outcome' = res
    /\ pc' = "done"
    /\ UNCHANGED <<attempt, now, endTime, text, seen, hist>>
    /\ UNCHANGED <<nodes, folders, expanded, icons, stack, faults, slept, event, clicksOn,
                   treeOutcome>>

\* quality_overlay_is_displayed()
ProbeQualityOverlay ==
    /\ pc = "call"
    /\ op.name = "quality_overlay_is_displayed"
    /\ \E e \in FindAnswers(0) :
          LET res == quality_overlay_is_displayed(e)
          IN /\ probed' = Append(probed, AnswerKind(e))
             /\ outcome' = res
    /\ pc' = "done"
    /\ UNCHANGED <<op, attempt, now, endTime, text, seen, hist>>
----------------------------------------------------------------------------
\* BasicComponent.py: _LocatorBuilder.get_css_locator

\* The longest locator list composed.
MaxParts == 3

\* selenium's By.*, and a locator given as a bare string instead of a tuple
ByCss == "css selector"
ById == "id"
ByClassName == "class name"
ByName == "name"
ByXpath == "xpath"
ByLinkText == "link text"
ByPartialLinkText == "partial link text"
ByTagName == "tag name"
Bare == "str"
Loc(by, value) == [by |-> by, value |-> value]

TypeError == "TypeError"
IndexError == "IndexError"

\* The locators lists are made of: .a   b, c   b, b   b,c ,d   [t='1,2']   b, [t=',[']
\* as CSS selectors, x as an id, k as a class name, n as a name, //d as an xpath,
\* e as a link text, f as a partial link text, g as a tag name and .p as a bare
\* string
Locs ==
    {Loc(ByCss, <<".", "a">>),
     Loc(ByCss, <<"b", ",", " ", "c">>),
     Loc(ByCss, <<"b", ",", " ", "b">>),
     Loc(ByCss, <<"b", ",", "c", " ", ",", "d">>),
     Loc(ByCss, <<"[", "t", "=", "'", "1", ",", "2", "'", "]">>),
     Loc(ByCss, <<"b", ",", " ", "[", "t", "=", "'", ",", "[", "'", "]">>),
     Loc(ById, <<"x">>),
     Loc(ByClassName, <<"k">>),
     Loc(ByName, <<"n">>),
     Loc(ByXpath, <<"/", "/", "d">>),
     Loc(ByLinkText, <<"e">>),
     Loc(ByPartialLinkText, <<"f">>),
     Loc(ByTagName, <<"g">>),
     Loc(Bare, <<".", "p">>)}

Quotes == {"'", "\""}
NoBracket(v, from, to) == \A r \in from..to : v[r] # "["

\* (?![^[]*['"][^[]*) at position p: some quote follows with no "[" before it
LookaheadBefore(v, p) ==
    \E q \in p..Len(v) : v[q] \in Quotes /\ NoBracket(v, p, q - 1)
\* (?![^[]*['"][^[]*]) at position p: the same, and a "]" follows the quote with
\* no "[" before it
LookaheadAfter(v, p) ==
    \E q \in p..Len(v) :
        /\ v[q] \in Quotes /\ NoBracket(v, p, q - 1)
        /\ \E r \in (q + 1)..Len(v) : v[r] = "]" /\ NoBracket(v, q + 1, r - 1)
\* the positions comma_locator_pattern matches at
Matches(v) ==
    {p \in 1..Len(v) : v[p] = "," /\ ~LookaheadBefore(v, p) /\ ~LookaheadAfter(v, p + 1)}

\* re.split(comma_locator_pattern, value)
RECURSIVE SplitFrom(_, _, _)
SplitFrom(v, from, at) ==
    LET later == {p \in at : p >= from}
    IN IF later = {} THEN <<SubSeq(v, from, Len(v))>>
       ELSE LET p == CHOOSE x \in later : \A y \in later : x <= y
            IN <<SubSeq(v, from, p - 1)>> \o SplitFrom(v, p + 1, at)
re_split(v) == SplitFrom(v, 1, Matches(v))

\* list.remove(x): without the first occurrence of x
RECURSIVE Remove(_, _)
Remove(list, x) ==
    IF list = <<>> THEN <<>>
    ELSE IF Head(list) = x THEN Tail(list)
    ELSE <<Head(list)>> \o Remove(Tail(list), x)
\* A Python set is iterated in an order the caller does not control (it follows
\* the hashes of the strings, seeded per process): here in the order the items
\* were added, or in the reverse of it.
SetOrders == {"as added", "reversed"}
\* the items of the set xs, all of them in list, in the order of iteration
RECURSIVE Distinct(_)
Distinct(list) ==
    IF list = <<>> THEN <<>>
    ELSE <<Head(list)>> \o SelectSeq(Distinct(Tail(list)), LAMBDA y : y # Head(list))
IterationOrder(list, xs) ==
    LET added == SelectSeq(Distinct(list), LAMBDA y : y \in xs)
    IN IF hashseed = "reversed"
       THEN [k \in DOMAIN added |-> added[Len(added) + 1 - k]]
       ELSE added
\* "for remove_item in locators_to_remove: complex_css_list.remove(remove_item)"
RemoveFirstOnly(list, order) == IF order = <<>> THEN list ELSE Remove(list, Head(order))
RECURSIVE RemoveInOrder(_, _)
RemoveInOrder(list, order) ==
    IF order = <<>> THEN list
    ELSE RemoveInOrder(Remove(list, Head(order)), Tail(order))
RemoveEach(list, xs) == RemoveInOrder(list, IterationOrder(list, xs))

\* the state of one call: css_list, complex_css_list, and the failure raised
Lists(css_list, complex_css_list) ==
    [css_list |-> css_list, complex_css_list |-> complex_css_list, raised |-> "none"]

\* append_value_for_lists(new_value)
append_to_last_only(st, new_value) ==
    IF st.complex_css_list # <<>>
    THEN [st EXCEPT !.complex_css_list[Len(st.complex_css_list)] = @ \o <<" ">> \o new_value]
    ELSE [st EXCEPT !.css_list = Append(@, new_value)]
append_value_for_lists(st, new_value) ==
    IF st.complex_css_list # <<>>
    THEN [st EXCEPT !.complex_css_list =
             [i \in DOMAIN st.complex_css_list |-> st.complex_css_list[i] \o <<" ">> \o new_value]]
    ELSE [st EXCEPT !.css_list = Append(@, new_value)]

\* "if split_locator[0] == ' ': split_locator = split_locator[1:]"
StripLeadingSpace(s) == IF s[1] = " " THEN Tail(s) ELSE s

\* the body of "for split_locator in split_locator_list", from the i-th entry on:
\* to_add is locators_to_add, and existed is complex_list_already_exists
RECURSIVE SplitLoop(_, _, _, _, _)
SplitLoop(st, parts, i, existed, to_add) ==
    IF i > Len(parts) THEN [st |-> st, to_add |-> to_add]
    ELSE IF parts[i] = <<>> THEN [st |-> [st EXCEPT !.raised = IndexError], to_add |-> to_add]
    ELSE LET s == StripLeadingSpace(parts[i])
         IN IF existed
            THEN SplitLoop(st, parts, i + 1, existed,
                           to_add \o [k \in DOMAIN st.complex_css_list |->
                                         st.complex_css_list[k] \o <<" ">> \o s])
            ELSE SplitLoop(
                    [st EXCEPT !.complex_css_list =
                        Append(@, Join(<<" ">>, st.css_list)
                                  \o (IF st.css_list # <<>> THEN <<" ">> \o s ELSE s))],
                    parts, i + 1, existed, to_add)

\* "case _:" of the match statement
OtherCase(st, value) ==
    LET parts == re_split(value)
    IN IF Len(parts) > 1
       THEN LET existed == st.complex_css_list # <<>>
                r == SplitLoop(st, parts, 1, existed, <<>>)
                to_remove == IF existed THEN {st.complex_css_list[k] : k \in DOMAIN st.complex_css_list}
                             ELSE {}
            IN IF r.st.raised # "none" THEN r.st
               ELSE [r.st EXCEPT !.complex_css_list = RemoveEach(@ \o r.to_add, to_remove)]
       ELSE append_value_for_lists(st, value)

\* one pass of "for locator in locators"
OneLocator(st, locator) ==
    LET by == IF locator.by = Bare THEN ByCss ELSE locator.by
        value == locator.value
    IN CASE by = ByXpath -> [st EXCEPT !.raised = TypeError]
         [] by = ById ->
              append_value_for_lists(st, <<"[", "i", "d", "=", "\"">> \o value \o <<"\"", "]">>)
         [] by = ByClassName -> append_value_for_lists(st, <<".">> \o value)
         [] by = ByName ->
              append_value_for_lists(
                  st, <<"[", "n", "a", "m", "e", "=", "\"">> \o value \o <<"\"", "]">>)
         [] OTHER -> OtherCase(st, value)

RECURSIVE ForLocators(_, _)
ForLocators(st, list) ==
    IF list = <<>> \/ st.raised # "none" THEN st
    ELSE ForLocators(OneLocator(st, Head(list)), Tail(list))

get_css_locator(list) ==
    LET st == ForLocators(Lists(<<>>, <<>>), list)
    IN IF st.raised # "none" THEN Raise(st.raised, "")
       ELSE Return([by |-> ByCss,
                    value |-> IF st.complex_css_list # <<>>
                              THEN Join(<<",", " ">>, st.complex_css_list)
                              ELSE Join(<<" ">>, st.css_list)])

NotComposed == [css |-> Running, xpath |-> Running]

CssIdle ==
    /\ locators = <<>>
    /\ composed = Running
    /\ xcomposed = Running
    /\ recomposed = NotComposed
    /\ hashseed = "as added"

CssInit ==
    /\ locators \in UNION {[1..n -> Locs] : n \in 1..MaxParts}
    /\ composed = Running
    /\ xcomposed = Running
    /\ recomposed = NotComposed
    /\ hashseed \in SetOrders

\* _LocatorBuilder.get_css_locator(locators=...); sets built by a later call may
\* be iterated in another order
Compose ==
    /\ composed = Running
    /\ composed' = get_css_locator(locators)
    /\ hashseed' \in SetOrders
    /\ UNCHANGED <<locators, xcomposed, recomposed>>

\* _LocatorBuilder.get_css_locator(locators=...), called again with the same list
Recompose ==
    /\ composed # Running
    /\ recomposed.css = Running
    /\ recomposed' = [recomposed EXCEPT !.css = get_css_locator(locators)]
    /\ hashseed' \in SetOrders
    /\ UNCHANGED <<locators, composed, xcomposed>>
----------------------------------------------------------------------------
\* BasicComponent.py: _LocatorBuilder.get_xpath_locator

\* one pass of "for locator in locators": by = locator[0], value = locator[1],
\* which for a bare string are its first two characters
XpathPieceUnchecked(locator) == Return(locator.value)
XpathPiece(locator) ==
    LET value == locator.value
    IN CASE locator.by = Bare ->
              IF Len(value) < 2 THEN Raise(IndexError, "") ELSE Return(<<value[2]>>)
         [] locator.by = ByCss -> Raise(TypeError, "")
         [] locator.by = ById ->
              Return(<<"/", "/", "*", "[", "@", "i", "d", "=", "\"">> \o value \o <<"\"", "]">>)
         [] locator.by = ByClassName ->
              Return(<<"/", "/", "*", "[", "c", "o", "n", "t", "a", "i", "n", "s",
                       "(", "c", "o", "n", "c", "a", "t", "(", "\"", " ", "\"",
                       ",", " ", "n", "o", "r", "m", "a", "l", "i", "z", "e", "-",
                       "s", "p", "a", "c", "e", "(", "@", "c", "l", "a", "s", "s",
                       ")", ",", " ", "\"", " ", "\"", ")", ",", "\"">>
                     \o value \o <<"\"", ")", "]">>)
         [] locator.by = ByName ->
              Return(<<"/", "/", "*", "[", "@", "n", "a", "m", "e", "=", "\"">> \o value \o <<"\"", "]">>)
         [] locator.by = ByLinkText ->
              Return(<<"/", "/", "a", "[", "n", "o", "r", "m", "a", "l", "i", "z",
                       "e", "-", "s", "p", "a", "c", "e", "(", ")", "=", "\"">>
                     \o value \o <<"\"", "]">>)
         [] locator.by = ByPartialLinkText ->
              Return(<<"/", "/", "a", "[", "c", "o", "n", "t", "a", "i", "n", "s",
                       "(", "n", "o", "r", "m", "a", "l", "i", "z", "e", "-", "s",
                       "p", "a", "c", "e", "(", ")", ",", "\"">>
                     \o value \o <<"\"", ")", "]">>)
         [] locator.by = ByTagName -> Return(<<"/", "/">> \o value)
         [] OTHER -> Return(value)

\* the for loop: xpath_list, or the failure that ended it
RECURSIVE XpathList(_)
XpathList(list) ==
    IF list = <<>> THEN Return(<<>>)
    ELSE LET piece == XpathPiece(Head(list))
         IN IF piece.kind = "raise" THEN piece
            ELSE LET rest == XpathList(Tail(list))
                 IN IF rest.kind = "raise" THEN rest
                    ELSE Return(<<piece.value>> \o rest.value)

get_xpath_locator_slash_joined(list) ==
    LET xpath_list == XpathList(list)
    IN IF xpath_list.kind = "raise" THEN xpath_list
       ELSE Return([by |-> ByXpath, value |-> Join(<<"/">>, xpath_list.value)])
get_xpath_locator(list) ==
    LET xpath_list == XpathList(list)
    IN IF xpath_list.kind = "raise" THEN xpath_list
       ELSE Return([by |-> ByXpath, value |-> Join(<<>>, xpath_list.value)])

\* _LocatorBuilder.get_xpath_locator(locators=...)
ComposeXpath ==
    /\ xcomposed = Running
    /\ xcomposed' = get_xpath_locator(locators)
    /\ UNCHANGED <<locators, composed, recomposed, hashseed>>

\* _LocatorBuilder.get_xpath_locator(locators=...), called again with the same list
RecomposeXpath ==
    /\ xcomposed # Running
    /\ recomposed.xpath = Running
    /\ recomposed' = [recomposed EXCEPT !.xpath = get_xpath_locator(locators)]
    /\ UNCHANGED <<locators, composed, xcomposed, hashseed>>

----------------------------------------------------------------------------
\* ComponentPiece.__init__ / _update_locator_list / set_locator: a parent piece and
\* a child piece built from parent.locator_list.  Python lists are objects: `lists`
\* holds each list object's content under its identity, and a piece holds the
\* identities of its _parent_locator_list and its locator_list.

\* The list objects allocated in one behaviour.
MaxLists == 7
\* The longest list an in-place change makes.
MaxChain == 2

ChainLocs == {Loc(ById, <<"x">>), Loc(ByCss, <<".", "a">>), Loc(ByTagName, <<"g">>)}

NoList == 0
NoPiece == [own |-> Loc(ByCss, <<>>), plist |-> NoList, llist |-> NoList]

\* self._parent_locator_list = parent_locator_list, without the copy
parent_list_shared(ls, given) ==
    IF given # NoList /\ ls[given] # <<>>
    THEN [lists |-> ls, plist |-> given]
    ELSE [lists |-> Append(ls, <<>>), plist |-> Len(ls) + 1]
\* self._parent_locator_list = parent_locator_list.copy() if parent_locator_list else []
parent_list_copied(ls, given) ==
    [lists |-> Append(ls, IF given # NoList /\ ls[given] # <<>> THEN ls[given] ELSE <<>>),
     plist |-> Len(ls) + 1]

\* _update_locator_list: locator_list becomes a new list object
update_locator_list(ls, piece) ==
    LET content == IF ls[piece.plist] # <<>>
                   THEN ls[piece.plist] \o <<piece.own>>
                   ELSE <<piece.own>>
    IN [lists |-> Append(ls, content),
        piece |-> [piece EXCEPT !.llist = Len(ls) + 1]]

\* ComponentPiece.__init__(locator, driver, parent_locator_list)
NewPiece(ls, locator, given) ==
    LET p == parent_list_copied(ls, given)
    IN update_locator_list(p.lists, [own |-> locator, plist |-> p.plist, llist |-> NoList])

\* A list object no piece refers to any more is released; its content is gone.
Collect(ls, cs) ==
    [i \in DOMAIN ls |->
        IF i \in {cs.parent.plist, cs.parent.llist, cs.child.plist, cs.child.llist}
        THEN ls[i] ELSE <<>>]

\* get_full_css_locator / get_full_xpath_locator of a piece
get_full_css_locator(ls, piece) == get_css_locator(ls[piece.llist])
get_full_xpath_locator(ls, piece) == get_xpath_locator(ls[piece.llist])

ChainIdle ==
    /\ lists = <<>>
    /\ comps = [parent |-> NoPiece, child |-> NoPiece]
    /\ born = <<>>

\* the parent piece is built with no parent of its own
ChainInit ==
    /\ \E locator \in ChainLocs :
          LET n == NewPiece(<<>>, locator, NoList)
          IN lists = n.lists /\ comps = [parent |-> n.piece, child |-> NoPiece]
    /\ born = <<>>

\* child = ComponentPiece(locator, driver, parent_locator_list=parent.locator_list)
ChildBuilt ==
    /\ comps.child = NoPiece
    /\ Len(lists) + 2 <= MaxLists
    /\ \E locator \in ChainLocs :
          LET n == NewPiece(lists, locator, comps.parent.llist)
          IN /\ comps' = [comps EXCEPT !.child = n.piece]
             /\ lists' = Collect(n.lists, comps')
             /\ born' = lists[comps.parent.llist]

\* parent.set_locator(new_locator)
ParentSetLocator ==
    /\ Len(lists) + 1 <= MaxLists
    /\ \E new_locator \in ChainLocs :
          LET u == update_locator_list(lists, [comps.parent EXCEPT !.own = new_locator])
          IN comps' = [comps EXCEPT !.parent = u.piece] /\ lists' = Collect(u.lists, comps')
    /\ UNCHANGED born

\* child.set_locator(new_locator)
ChildSetLocator ==
    /\ comps.child # NoPiece
    /\ Len(lists) + 1 <= MaxLists
    /\ \E new_locator \in ChainLocs :
          LET u == update_locator_list(lists, [comps.child EXCEPT !.own = new_locator])
          IN comps' = [comps EXCEPT !.child = u.piece] /\ lists' = Collect(u.lists, comps')
    /\ UNCHANGED born

\* a caller changes the parent's list in place: parent.locator_list.append(l),
\* .pop() or [0] = l
ParentListChanged ==
    /\ LET id == comps.parent.llist
           old == lists[id]
       IN \E l \in ChainLocs, how \in {"append", "pop", "setitem"} :
             /\ how = "append" => Len(old) < MaxChain
             /\ how \in {"pop", "setitem"} => old # <<>>
             /\ lists' = [lists EXCEPT ![id] =
                             CASE how = "append" -> Append(old, l)
                               [] how = "pop" -> SubSeq(old, 1, Len(old) - 1)
                               [] how = "setitem" -> [old EXCEPT ![1] = l]]
             /\ lists'[id] # old
    /\ UNCHANGED <<comps, born>>
----------------------------------------------------------------------------
\* Tree.py: Item, as objects that refer to their parent.

\* How many Items one behaviour constructs.
MaxObjects == 4

\* How many Items a behaviour that reassigns attributes constructs.
MaxRebuilt == 2
\* How many attribute assignments one behaviour makes.
MaxEdits == 1
\* How many Items one behaviour asks the tree for.
MaxAsked == 1

\* label_text: "", "a" or "b"
ItemLabels == {<<>>, La, Lb}
\* parent=None
NoParent == 0

\* Item._build_ancestry for an Item whose parent attribute is p: the walk inserts
\* each parent at the front, and stops at None or at an empty label
RECURSIVE AncestryWalkSkipping(_, _)
AncestryWalkSkipping(h, p) ==
    IF p = NoParent THEN <<>>
    ELSE IF h[p].label = <<>> THEN AncestryWalkSkipping(h, h[p].parent)
    ELSE AncestryWalkSkipping(h, h[p].parent) \o <<p>>
RECURSIVE AncestryWalkNearestFirst(_, _)
AncestryWalkNearestFirst(h, p) ==
    IF p = NoParent \/ Len(h[p].label) = 0 THEN <<>>
    ELSE <<p>> \o AncestryWalkNearestFirst(h, h[p].parent)
RECURSIVE AncestryWalk(_, _)
AncestryWalk(h, p) ==
    IF p = NoParent \/ Len(h[p].label) = 0 THEN <<>>
    ELSE AncestryWalk(h, h[p].parent) \o <<p>>

\* path_pieces of _build_locator and _build_path: the labels of get_ancestry(),
\* then the Item's own
RECURSIVE LabelsAbove(_, _)
LabelsAbove(h, p) ==
    IF p = NoParent THEN <<>> ELSE LabelsAbove(h, h[p].parent) \o <<h[p].label>>
PathPieces(h, ancestry, label) == [k \in DOMAIN ancestry |-> h[ancestry[k]].label] \o <<label>>

ConstructWholeChain(h, label_text, parent) ==
    LET pieces == LabelsAbove(h, parent) \o <<label_text>>
    IN [label |-> label_text, parent |-> parent, ancestry |-> AncestryWalk(h, parent),
        locator |-> [by |-> ByCss, value |-> get_locator(pieces)],
        path |-> Path(pieces)]

\* Item.__init__(label_text, parent)
Construct(h, label_text, parent) ==
    LET ancestry == AncestryWalk(h, parent)
        pieces == PathPieces(h, ancestry, label_text)
    IN [label |-> label_text, parent |-> parent, ancestry |-> ancestry,
        locator |-> [by |-> ByCss, value |-> get_locator(pieces)],
        path |-> Path(pieces)]

ItemIdle == heap = <<>> /\ edits = 0
ItemInit == heap = <<>> /\ edits = 0

\* Item(label_text, parent): the new object may refer to any Item made before
NewItem ==
    \E label_text \in ItemLabels, parent \in 0..Len(heap) :
        /\ Len(heap) < MaxObjects
        /\ heap' = Append(heap, Construct(heap, label_text, parent))
        /\ UNCHANGED edits


\* ---- attributes reassigned after construction ----

\* the Items on the parent chain that starts at p
RECURSIVE ChainAbove(_, _)
ChainAbove(h, p) == IF p = NoParent THEN {} ELSE {p} \cup ChainAbove(h, h[p].parent)

\* "item.label = label_text" / "item.parent = parent": label and parent are plain
\* instance attributes, so an assignment stores the value and runs no code of Item
assign_rebuilding(h, id, field, value) ==
    LET label == IF field = "label" THEN value ELSE h[id].label
        parent == IF field = "parent" THEN value ELSE h[id].parent
    IN [h EXCEPT ![id] = Construct(h, label, parent)]
assign(h, id, field, value) ==
    [h EXCEPT ![id] = IF field = "label" THEN [@ EXCEPT !.label = value]
                      ELSE [@ EXCEPT !.parent = value]]

\* item.label = label_text, for any Item made before
SetLabel ==
    \E id \in DOMAIN heap, label_text \in ItemLabels :
        /\ edits < MaxEdits
        /\ label_text # heap[id].label
        /\ heap' = assign(heap, id, "label", label_text)
        /\ edits' = edits + 1

\* item.parent = parent (None or an Item made before); parent chains stay finite
SetParent ==
    \E id \in DOMAIN heap, parent \in 0..Len(heap) :
        /\ parent # heap[id].parent
        /\ edits < MaxEdits
        /\ id \notin ChainAbove(heap, parent)
        /\ heap' = assign(heap, id, "parent", parent)
        /\ edits' = edits + 1

\* CommonTree._get_item(item) for an Item made before: the piece is kept under
\* str(item) and built from item.get_locator(), both as the Item stores them
GetItemPiece ==
    \E id \in DOMAIN heap :
        /\ Cardinality(DOMAIN items) < MaxAsked
        /\ heap[id].path \notin DOMAIN items
        /\ items' = items @@ (heap[id].path :> [locator |-> heap[id].locator.value, of |-> id,
                                                timeout |-> ItemTimeout])
        /\ UNCHANGED <<heap, edits>>
----------------------------------------------------------------------------
\* Displays/TagBrowseTree.py: TagBrowseTree._item_from_tag. A Tag is given by its
\* provider and the labels of its path below the provider.

\* The deepest tag path.
MaxTagDepth == 3

Lc == <<"c">>
TagLabels == {La, Lb, Lc}
Providers == {<<"[", "p", "]">>, <<"[", "q", "]">>}
Tags ==
    {[provider |-> p, labels |-> ls] :
        p \in Providers, ls \in UNION {[1..n -> TagLabels] : n \in 1..MaxTagDepth}}

\* Tag.get_provider() and Tag.get_full_path(): "[provider]l1/l2/.../ln"
get_provider(tag) == tag.provider
get_full_path(tag) == tag.provider \o Join(<<"/">>, tag.labels)

\* str.split(sep): the pieces between the occurrences of sep, leftmost first
RECURSIVE StrSplit(_, _)
StrSplit(s, sep) ==
    LET hits == {i \in 1..(Len(s) - Len(sep) + 1) : SubSeq(s, i, i + Len(sep) - 1) = sep}
    IN IF hits = {} THEN <<s>>
       ELSE LET i == CHOOSE x \in hits : \A y \in hits : x <= y
            IN <<SubSeq(s, 1, i - 1)>> \o StrSplit(SubSeq(s, i + Len(sep), Len(s)), sep)

\* pieces.pop(): the last piece is taken
pop(pieces) ==
    [piece |-> pieces[Len(pieces)], rest |-> SubSeq(pieces, 1, Len(pieces) - 1)]

\* _item_from_tag(tag) just entered, no Item made yet
TagInit ==
    /\ op \in {[name |-> "_item_from_tag", tag |-> t, pieces |-> <<>>, item |-> NoParent] :
                 t \in Tags}
    /\ pc = "call"
    /\ attempt = 0
    /\ now = 0
    /\ endTime = 0
    /\ text = <<>>
    /\ seen = FALSE
    /\ outcome = Running
    /\ hist = NoHist
    /\ heap = <<>>
    /\ edits = 0

\* pieces = tag.get_full_path().split(tag.get_provider())[1].split("/");
\* item = Item(label_text=pieces.pop(0))
TagSplit ==
    /\ pc = "call"
    /\ LET pieces == StrSplit(StrSplit(get_full_path(op.tag), get_provider(op.tag))[2],
                              <<"/">>)
       IN /\ heap' = Append(heap, Construct(heap, Head(pieces), NoParent))
          /\ op' = [op EXCEPT !.pieces = Tail(pieces), !.item = Len(heap) + 1]
    /\ pc' = "loop"
    /\ UNCHANGED <<attempt, now, endTime, text, seen, outcome, hist, edits>>

\* one pass of "while len(pieces) > 0": piece = pieces.pop(), and
\* item = Item(label_text=piece, parent=item) when the piece is not empty
TagPop ==
    /\ pc = "loop"
    /\ Len(op.pieces) > 0
    /\ LET p == pop(op.pieces)
       IN IF Len(p.piece) > 0
          THEN /\ heap' = Append(heap, Construct(heap, p.piece, op.item))
               /\ op' = [op EXCEPT !.pieces = p.rest, !.item = Len(heap) + 1]
          ELSE /\ op' = [op EXCEPT !.pieces = p.rest]
               /\ UNCHANGED heap
    /\ UNCHANGED <<pc, attempt, now, endTime, text, seen, outcome, hist, edits>>

\* "return item"
TagReturn ==
    /\ pc = "loop"
    /\ Len(op.pieces) = 0
    /\ pc' = "done"
    /\ outcome' = Return([t |-> "Item", v |-> op.item])
    /\ UNCHANGED <<op, attempt, now, endTime, text, seen, hist, heap, edits>>
----------------------------------------------------------------------------
\* ComponentPiece.boundary_collision: one call, under retry_on_stale_element.

\* The largest coordinate and the largest width or height of a WebElement.rect.
MaxCoord == 2

Rect(x, y, w, h) == [x |-> x, y |-> y, width |-> w, height |-> h]
\* element.rect of any element the driver may hand out; an element may have no
\* width or no height
Rects == {Rect(x, y, w, h) : x \in 0..MaxCoord, y \in 0..MaxCoord,
                             w \in 0..MaxCoord, h \in 0..MaxCoord}

\* One answer of the driver to "find().rect": the locator was not resolved within
\* self.wait, the element went stale before its rect was read, or the rect.
RectNotFound == [find |-> "notfound"]
RectStale == [find |-> "found", use |-> "stale"]
RectOf(r) == [find |-> "found", use |-> "ok", rect |-> r]
RectAnswers == {RectNotFound, RectStale} \cup {RectOf(r) : r \in Rects}
NoRects == <<>>

\* the returned expression, with touching counted
overlap_or_touch(rect_1, rect_2) ==
    /\ rect_1.x <= rect_2.x + rect_2.width
    /\ rect_1.x + rect_1.width >= rect_2.x
    /\ rect_1.y <= rect_2.y + rect_2.height
    /\ rect_1.y + rect_1.height >= rect_2.y
\* the returned expression
overlap(rect_1, rect_2) ==
    /\ rect_1.x < rect_2.x + rect_2.width
    /\ rect_1.x + rect_1.width > rect_2.x
    /\ rect_1.y < rect_2.y + rect_2.height
    /\ rect_1.y + rect_1.height > rect_2.y

\* the body: rect_1 = self.find().rect; rect_2 = other_component.find().rect
boundary_collision(e1, e2) ==
    IF e1.find = "notfound" THEN Raise(Timeout, "not found")
    ELSE IF e1.use = "stale" THEN Raise(Stale, "")
    ELSE IF e2.find = "notfound" THEN Raise(Timeout, "not found")
    ELSE IF e2.use = "stale" THEN Raise(Stale, "")
    ELSE Return(Bool(overlap(e1.rect, e2.rect)))

RectIdle == rects = NoRects

RectInit ==
    /\ op = [name |-> "boundary_collision"]
    /\ pc = "call"
    /\ attempt = 0
    /\ now = 0
    /\ endTime = 0
    /\ text = <<>>
    /\ seen = FALSE
    /\ outcome = Running
    /\ hist = NoHist
    /\ rects = NoRects

\* wrapper: one invocation of the body; the second find is reached only when the
\* first gave a rect
Collide ==
    /\ pc = "call"
    /\ \E e1 \in RectAnswers, e2 \in RectAnswers :
        /\ LET res == boundary_collision(e1, e2)
               second == e1.find = "found" /\ e1.use = "ok"
           IN /\ hist' = [Invoked(hist, e1, res, attempt = 0) EXCEPT
                             !.finds = @ + (IF second THEN 1 ELSE 0)]
              /\ rects' = IF res.kind = "return" THEN <<e1.rect, e2.rect>> ELSE NoRects
              /\ IF RetryPasses(attempt, res)
                 THEN attempt' = attempt + 1 /\ UNCHANGED <<pc, outcome>>
                 ELSE pc' = "done" /\ outcome' = res /\ UNCHANGED attempt
        /\ UNCHANGED <<op, now, endTime, text, seen>>
----------------------------------------------------------------------------
\* Specifications: one per group of operations.

CollStart == CollInit /\ PieceIdle /\ TreeIdle /\ SelIdle /\ CssIdle /\ ItemIdle /\ RectIdle /\ OffsetIdle /\ ChainIdle /\ ProbeIdle
CollNext ==
    \/ Get /\ UNCHANGED <<pieceVars, treeVars, selVars, cssVars, itemVars, geomVars, offsetVars, chainVars, probeVars>>
    \/ SetLocator /\ UNCHANGED <<pieceVars, treeVars, selVars, cssVars, itemVars, geomVars, offsetVars, chainVars, probeVars>>
SpecColl == CollStart /\ [][CollNext]_vars

RetryStart == RetryInit /\ CollInit /\ TreeIdle /\ SelIdle /\ CssIdle /\ ItemIdle /\ RectIdle /\ OffsetIdle /\ ChainIdle /\ ProbeIdle
RetryNext == Invoke /\ UNCHANGED <<collVars, treeVars, selVars, cssVars, itemVars, geomVars, offsetVars, chainVars, probeVars>>
SpecRetry == RetryStart /\ [][RetryNext]_vars

WaitStart == WaitInit /\ CollInit /\ TreeIdle /\ SelIdle /\ CssIdle /\ ItemIdle /\ RectIdle /\ OffsetIdle /\ ChainIdle /\ ProbeIdle
WaitNext == WaitPoll /\ UNCHANGED <<collVars, treeVars, selVars, cssVars, itemVars, geomVars, offsetVars, chainVars, probeVars>>
SpecWait == WaitStart /\ [][WaitNext]_vars

ClickStart == ClickInit /\ CollInit /\ TreeIdle /\ SelIdle /\ CssIdle /\ ItemIdle /\ RectIdle /\ OffsetIdle /\ ChainIdle /\ ProbeIdle
ClickNext ==
    \/ ClickFind /\ UNCHANGED <<collVars, treeVars, selVars, cssVars, itemVars, geomVars, offsetVars, chainVars, probeVars>>
    \/ ClickPoll /\ UNCHANGED <<collVars, treeVars, selVars, cssVars, itemVars, geomVars, offsetVars, chainVars, probeVars>>
SpecClick == ClickStart /\ [][ClickNext]_vars

TreeStart == TreeInit /\ CollInit /\ PieceIdle /\ SelIdle /\ CssIdle /\ ItemIdle /\ RectIdle /\ OffsetIdle /\ ChainIdle /\ ProbeIdle
TreeNext ==
    \/ TreeNest /\ UNCHANGED <<collVars, pieceVars, selVars, cssVars, itemVars, geomVars, offsetVars, chainVars, probeVars>>
    \/ TreeCheck /\ UNCHANGED <<collVars, pieceVars, selVars, cssVars, itemVars, geomVars, offsetVars, chainVars, probeVars>>
    \/ TreeIsExpanded /\ UNCHANGED <<collVars, pieceVars, selVars, cssVars, itemVars, geomVars, offsetVars, chainVars, probeVars>>
    \/ TreeClick /\ UNCHANGED <<collVars, pieceVars, selVars, cssVars, itemVars, geomVars, offsetVars, chainVars, probeVars>>
SpecTree == TreeStart /\ [][TreeNext]_vars
\* Every driver call returns, so a call in progress always takes its next step.
SpecTreeFair == TreeStart /\ [][TreeNext]_vars /\ WF_vars(TreeNext)

ExpansionStart == ExpansionInit /\ CollInit /\ PieceIdle /\ SelIdle /\ CssIdle /\ ItemIdle /\ RectIdle /\ OffsetIdle /\ ChainIdle /\ ProbeIdle
ExpansionNext ==
    \/ TreeNest /\ UNCHANGED <<collVars, pieceVars, selVars, cssVars, itemVars, geomVars, offsetVars, chainVars, probeVars>>
    \/ TreeCheck /\ UNCHANGED <<collVars, pieceVars, selVars, cssVars, itemVars, geomVars, offsetVars, chainVars, probeVars>>
    \/ TreeIsExpanded /\ UNCHANGED <<collVars, pieceVars, selVars, cssVars, itemVars, geomVars, offsetVars, chainVars, probeVars>>
    \/ TreeClick /\ UNCHANGED <<collVars, pieceVars, selVars, cssVars, itemVars, geomVars, offsetVars, chainVars, probeVars>>
SpecExpansion == ExpansionStart /\ [][ExpansionNext]_vars

SelectStart == SelInit /\ CollInit /\ PieceIdle /\ CssIdle /\ ItemIdle /\ RectIdle /\ OffsetIdle /\ ChainIdle /\ ProbeIdle
SelectNext ==
    \/ SelEarlier /\ UNCHANGED <<collVars, pieceVars, cssVars, itemVars, geomVars, offsetVars, chainVars, probeVars>>
    \/ SelBegin /\ UNCHANGED <<collVars, pieceVars, cssVars, itemVars, geomVars, offsetVars, chainVars, probeVars>>
    \/ SelFind /\ UNCHANGED <<collVars, pieceVars, cssVars, itemVars, geomVars, offsetVars, chainVars, probeVars>>
    \/ SelPerform /\ UNCHANGED <<collVars, pieceVars, cssVars, itemVars, geomVars, offsetVars, chainVars, probeVars>>
SpecSelect == SelectStart /\ [][SelectNext]_vars

CssStart == CssInit /\ CollInit /\ PieceIdle /\ TreeIdle /\ SelIdle /\ ItemIdle /\ RectIdle /\ OffsetIdle /\ ChainIdle /\ ProbeIdle
CssNext ==
    \/ Compose /\ UNCHANGED <<collVars, pieceVars, treeVars, selVars, itemVars, geomVars, offsetVars, chainVars, probeVars>>
    \/ ComposeXpath /\ UNCHANGED <<collVars, pieceVars, treeVars, selVars, itemVars, geomVars, offsetVars, chainVars, probeVars>>
    \/ Recompose /\ UNCHANGED <<collVars, pieceVars, treeVars, selVars, itemVars, geomVars, offsetVars, chainVars, probeVars>>
    \/ RecomposeXpath /\ UNCHANGED <<collVars, pieceVars, treeVars, selVars, itemVars, geomVars, offsetVars, chainVars, probeVars>>
SpecCss == CssStart /\ [][CssNext]_vars

ItemStart == ItemInit /\ CollInit /\ PieceIdle /\ TreeIdle /\ SelIdle /\ CssIdle /\ RectIdle /\ OffsetIdle /\ ChainIdle /\ ProbeIdle
ItemNext == NewItem /\ UNCHANGED <<collVars, pieceVars, treeVars, selVars, cssVars, geomVars, offsetVars, chainVars, probeVars>>
SpecItem == ItemStart /\ [][ItemNext]_vars

ReassignStart == ItemInit /\ CollInit /\ PieceIdle /\ TreeIdle /\ SelIdle /\ CssIdle /\ RectIdle /\ OffsetIdle /\ ChainIdle /\ ProbeIdle
ReassignNext ==
    \/ Len(heap) < MaxRebuilt /\ NewItem /\ UNCHANGED <<collVars, pieceVars, treeVars, selVars, cssVars, geomVars, offsetVars, chainVars, probeVars>>
    \/ SetLabel /\ UNCHANGED <<collVars, pieceVars, treeVars, selVars, cssVars, geomVars, offsetVars, chainVars, probeVars>>
    \/ SetParent /\ UNCHANGED <<collVars, pieceVars, treeVars, selVars, cssVars, geomVars, offsetVars, chainVars, probeVars>>
    \/ GetItemPiece /\ UNCHANGED <<nodes, folders, expanded, icons, stack, faults, slept, event, clicksOn, treeOutcome>>
                    /\ UNCHANGED <<collVars, pieceVars, selVars, cssVars, geomVars, offsetVars, chainVars, probeVars>>
SpecReassign == ReassignStart /\ [][ReassignNext]_vars

RectStart == RectInit /\ CollInit /\ TreeIdle /\ SelIdle /\ CssIdle /\ ItemIdle /\ OffsetIdle /\ ChainIdle /\ ProbeIdle
RectNext == Collide /\ UNCHANGED <<collVars, treeVars, selVars, cssVars, itemVars, offsetVars, chainVars, probeVars>>
SpecRect == RectStart /\ [][RectNext]_vars

OffsetStart == OffsetInit /\ CollInit /\ TreeIdle /\ SelIdle /\ CssIdle /\ ItemIdle /\ RectIdle /\ ChainIdle /\ ProbeIdle
OffsetNext == OffsetClick /\ UNCHANGED <<collVars, treeVars, selVars, cssVars, itemVars, geomVars, chainVars, probeVars>>
SpecOffset == OffsetStart /\ [][OffsetNext]_vars

DefaultsStart == DefaultsInit /\ CollInit /\ TreeIdle /\ SelIdle /\ CssIdle /\ ItemIdle /\ RectIdle /\ OffsetIdle /\ ChainIdle /\ ProbeIdle
DefaultsNext ==
    \/ ListTexts /\ UNCHANGED <<collVars, treeVars, selVars, cssVars, itemVars, geomVars, offsetVars, chainVars, probeVars>>
    \/ LabelText /\ UNCHANGED <<collVars, treeVars, selVars, cssVars, itemVars, geomVars, offsetVars, chainVars, probeVars>>
SpecDefaults == DefaultsStart /\ [][DefaultsNext]_vars

InputStart == InputInit /\ CollInit /\ TreeIdle /\ SelIdle /\ CssIdle /\ ItemIdle /\ RectIdle /\ OffsetIdle /\ ChainIdle /\ ProbeIdle
InputNext ==
    \/ InputGetText /\ UNCHANGED <<collVars, treeVars, selVars, cssVars, itemVars, geomVars, offsetVars, chainVars, probeVars>>
    \/ InputWaitPoll /\ UNCHANGED <<collVars, treeVars, selVars, cssVars, itemVars, geomVars, offsetVars, chainVars, probeVars>>
SpecInput == InputStart /\ [][InputNext]_vars

ChainStart == ChainInit /\ CollInit /\ PieceIdle /\ TreeIdle /\ SelIdle /\ CssIdle /\ ItemIdle /\ RectIdle /\ OffsetIdle /\ ProbeIdle
ChainNext ==
    \/ ChildBuilt /\ UNCHANGED <<collVars, pieceVars, treeVars, selVars, cssVars, itemVars, geomVars, offsetVars, probeVars>>
    \/ ParentSetLocator /\ UNCHANGED <<collVars, pieceVars, treeVars, selVars, cssVars, itemVars, geomVars, offsetVars, probeVars>>
    \/ ChildSetLocator /\ UNCHANGED <<collVars, pieceVars, treeVars, selVars, cssVars, itemVars, geomVars, offsetVars, probeVars>>
    \/ ParentListChanged /\ UNCHANGED <<collVars, pieceVars, treeVars, selVars, cssVars, itemVars, geomVars, offsetVars, probeVars>>
SpecChain == ChainStart /\ [][ChainNext]_vars

ProbeStart == ProbeInit /\ CollInit /\ SelIdle /\ CssIdle /\ ItemIdle /\ RectIdle /\ OffsetIdle /\ ChainIdle
ProbeNext ==
    \/ ProbeIsDisplayed /\ UNCHANGED <<collVars, treeVars, selVars, cssVars, itemVars, geomVars, offsetVars, chainVars>>
    \/ ProbeItemIsDisplayed /\ UNCHANGED <<collVars, selVars, cssVars, itemVars, geomVars, offsetVars, chainVars>>
    \/ ProbeQualityOverlay /\ UNCHANGED <<collVars, treeVars, selVars, cssVars, itemVars, geomVars, offsetVars, chainVars>>
SpecProbe == ProbeStart /\ [][ProbeNext]_vars

TagStart == TagInit /\ CollInit /\ TreeIdle /\ SelIdle /\ CssIdle /\ RectIdle /\ OffsetIdle /\ ChainIdle /\ ProbeIdle
TagNext ==
    \/ TagSplit /\ UNCHANGED <<collVars, treeVars, selVars, cssVars, geomVars, offsetVars, chainVars, probeVars>>
    \/ TagPop /\ UNCHANGED <<collVars, treeVars, selVars, cssVars, geomVars, offsetVars, chainVars, probeVars>>
    \/ TagReturn /\ UNCHANGED <<collVars, treeVars, selVars, cssVars, geomVars, offsetVars, chainVars, probeVars>>
SpecTag == TagStart /\ [][TagNext]_vars
----------------------------------------------------------------------------
\* Claims.

\* C1: any two get() calls whose arguments format to the same locator string were
\* given the identical instance, and the component class was constructed exactly
\* once for every formatted locator that was asked for.
C1_OneInstancePerLocator ==
    /\ \A k \in DOMAIN returnedFor :
          /\ Cardinality(returnedFor[k].ids) = 1
          /\ Format(Template, returnedFor[k].first) = k
          /\ k \in DOMAIN ctorCount /\ ctorCount[k] = 1
    /\ DOMAIN ctorCount = DOMAIN returnedFor
    /\ \A k1, k2 \in DOMAIN returnedFor :
          k1 # k2 => returnedFor[k1].ids \cap returnedFor[k2].ids = {}
    /\ lastGet.outcome = "returned" =>
          \E k \in DOMAIN returnedFor : lastGet.id \in returnedFor[k].ids

\* Two calls with different argument lists that format to the same locator
\* (1 and "1", a surplus piece, 1,"2" and 12 ...) have both returned.
C1_Witness ==
    \E k \in DOMAIN returnedFor : returnedFor[k].varied

\* C2: an operation wrapped by retry_on_stale_element is invoked at most 4 times
\* per call (the first attempt and 3 retries), each invocation resolving the
\* element again; every invocation before the last one raised staleness, the call
\* ends with what the first invocation that does not raise staleness gives (a
\* result or another failure), and staleness reaches the caller only when all 4
\* invocations raised it.
C2_RetryBudget ==
    /\ hist.inv <= RetryAttempts + 1
    /\ hist.finds = hist.inv
    /\ pc = "call" => hist.stales = hist.inv /\ hist.inv <= RetryAttempts
    /\ pc = "done" =>
          /\ outcome.kind \in {"return", "raise"}
          /\ hist.inv >= 1
          /\ IF outcome.kind = "raise" /\ outcome.exc = Stale
             THEN hist.stales = hist.inv /\ hist.inv = RetryAttempts + 1
             ELSE hist.stales = hist.inv - 1

\* The fourth invocation, after three that raised staleness, gave a result.
C2_Witness ==
    /\ pc = "done"
    /\ outcome.kind = "return"
    /\ hist.inv = RetryAttempts + 1
    /\ hist.stales = RetryAttempts

\* C3 as stated: wait_on_text_condition fails with the not-found failure if and
\* only if no read of the element's text succeeded during the call.
C3_Original ==
    pc = "done" =>
        ((outcome.kind = "raise" /\ outcome.exc = Timeout) <=> hist.reads = 0)

\* C3 as amended: wait_on_text_condition fails with the not-found failure if and
\* only if a read ended in not-found while no read had succeeded before it in the
\* call; once one read has succeeded, a later not-found is swallowed and the call
\* returns normally. (A call in which no read succeeded can also end with the
\* staleness failure once the retry budget is used up.)
C3_NotFoundOnlyBeforeAnyRead ==
    pc = "done" =>
        LET notFoundLast == hist.lastRes.kind = "raise" /\ hist.lastRes.exc = Timeout
        IN /\ (outcome.kind = "raise" /\ outcome.exc = Timeout)
                  <=> (notFoundLast /\ hist.reads = 0)
           /\ (notFoundLast /\ hist.reads > 0) => outcome.kind = "return"

\* Found, then removed: a read succeeded, a later one ended in not-found, and the
\* call returned.
C3_Witness ==
    /\ pc = "done"
    /\ hist.reads > 0
    /\ hist.lastRes.kind = "raise" /\ hist.lastRes.exc = Timeout
    /\ outcome.kind = "return"

\* C4: when every poll read the element's text (the element stayed present) and
\* the condition is one of the six, wait_on_text_condition does not fail: it
\* returns the text of the most recent successful read, which either satisfies the
\* condition (the wait ended on that poll, without a sleep after it) or was read
\* on the last poll before the timeout elapsed.
C4_ReturnsLastReadText ==
    (/\ pc = "done"
     /\ hist.lastRes.kind = "return"
     /\ ~(op.text_to_compare.t # "none" /\ Unsupported(op.condition)))
    => /\ outcome.kind = "return"
       /\ hist.reads >= 1
       /\ outcome.value = hist.lastRead
       /\ op.text_to_compare.t # "none" =>
             IF Satisfies(op.condition, StrOf(op.text_to_compare), outcome.value.v)
             THEN hist.sleeps = hist.polls - 1
             ELSE now > endTime /\ hist.sleeps = hist.polls

\* The timeout elapsed with the condition unsatisfied on every one of several
\* polls, the text having changed between them, and the call returned.
C4_Witness ==
    /\ pc = "done"
    /\ outcome.kind = "return"
    /\ op.text_to_compare.t # "none"
    /\ ~Unsupported(op.condition)
    /\ hist.lastRes.kind = "return"
    /\ hist.reads >= 2
    /\ ~Satisfies(op.condition, StrOf(op.text_to_compare), outcome.value.v)
    /\ outcome.value.v # <<>>

\* C5: with a None comparison value wait_on_text_condition returns the element's
\* current text after a single read, with no further poll and no sleep, whatever
\* the text is (the empty string included).
C5_NoneReturnsAfterOneRead ==
    (op.name = "wait_on_text_condition" /\ op.text_to_compare.t = "none" /\ hist.reads >= 1)
    => /\ pc = "done"
       /\ hist.reads = 1
       /\ hist.sleeps = 0
       /\ outcome.kind = "return" /\ outcome.value = hist.lastRead

\* The part of C5 that the code does keep: a non-empty text is returned after one
\* read with no sleep.
C5_NonEmptyReturnsAfterOneRead ==
    (/\ op.name = "wait_on_text_condition" /\ op.text_to_compare.t = "none"
     /\ hist.reads >= 1 /\ hist.lastRead.v # <<>>)
    => /\ pc = "done"
       /\ hist.sleeps = hist.polls - 1
       /\ outcome.kind = "return" /\ outcome.value = hist.lastRead

\* C6: click() never surfaces a not-interactable answer: after each one it keeps
\* polling until the wait's time is over, and it returns normally exactly when a
\* click attempt succeeded, which is then the only one that did; when the first
\* find does not find the element, not-found is raised and no click was attempted.
C6_ClickPollsUntilInteractable ==
    /\ hist.clicked <= 1
    /\ outcome.kind = "raise" => outcome.exc \in {Timeout, Stale, Intercepted}
    /\ pc = "done" =>
          /\ (outcome.kind = "return") <=> (hist.clicked = 1)
          /\ hist.polls = 0 =>
                /\ outcome.kind = "raise" /\ outcome.exc = Timeout
                /\ outcome.why = "not found"
                /\ hist.clicks = 0 /\ hist.finds = 1
          /\ (hist.polls > 0 /\ hist.lastRes.kind = "return" /\ ~hist.lastRes.value.v) =>
                /\ outcome.kind = "raise" /\ outcome.exc = Timeout
                /\ outcome.why = "The element never became clickable."
                /\ now > endTime
    /\ (pc = "until" /\ hist.polls > 0 /\ attempt = 0) =>
          /\ hist.lastRes.kind = "return" /\ ~hist.lastRes.value.v
          /\ now <= endTime

\* Two not-interactable answers, then a click that succeeded, and click() returned.
C6_Witness ==
    /\ pc = "done"
    /\ outcome.kind = "return"
    /\ hist.refused >= 2
    /\ hist.clicked = 1
    /\ hist.stales = 0


\* C7: expand_to_item returns normally only if its final check observed the
\* target item displayed; an item still not displayed after max_attempts attempts
\* makes the call fail with the expansion failure.
C7_ReturnsOnlyWhenDisplayed ==
    (stack = <<>> /\ treeOutcome.kind = "return") => event.check = "true"

\* What the code does keep of C7: the outermost call returns normally only from
\* its final check, and fails only with the expansion failure or with a failure
\* the except clause does not name.
C7_ReturnsFromFinalCheck ==
    /\ treeOutcome.kind = "return" =>
          stack = <<>> /\ event.kind = "returned" /\ event.check \in {"true", "false"}
    /\ treeOutcome.kind = "raise" =>
          treeOutcome = ExpansionFailed \/ treeOutcome.exc = Intercepted

\* C8: in expand_to_item, a not-found or staleness failure raised while handling
\* the k-th ancestor in attempt i < max_attempts is followed by a back-off of
\* delay_between_attempts and a new attempt that starts again at the first
\* ancestor; the same failure in attempt max_attempts ends the call with the
\* expansion failure (which the call around it, if any, handles the same way).
C8_RetryWalksFromRoot ==
    /\ event.kind = "restart" =>
          /\ Len(stack) = event.depth
          /\ event.attempt < event.max
          /\ Top.max = event.max
          /\ Top.attempt = event.attempt + 1
          /\ Top.idx = 1
          /\ Top.phase = StartPhase(Top.item)
          /\ slept = event.before + Top.delay
          /\ treeOutcome = Running
    /\ event.kind = "failed" =>
          /\ stack = <<>>
          /\ treeOutcome = ExpansionFailed
          /\ slept = event.before
          /\ event.ended # <<>>
    /\ event.kind \in {"restart", "failed"} =>
          \A i \in DOMAIN event.ended :
              /\ event.ended[i].attempt = event.ended[i].max
              /\ event.ended[i].depth = event.depth + Len(event.ended) + 1 - i

\* A failure while the outermost call handled its second ancestor in attempt 1 of
\* 2 (the call made for that ancestor having used up its own attempts): the
\* outermost call slept and is back at its first ancestor.
C8_Witness ==
    /\ event.kind = "restart"
    /\ event.depth = 1
    /\ event.at = 2
    /\ event.ended # <<>>
    /\ stack # <<>>
    /\ Top.delay > 0
    /\ Top.idx = 1

\* C9: multi_select over N items that all resolve delivers one gesture whose event
\* order is: exactly one modifier key-down (Shift when inclusive, Control/Command
\* otherwise), then N clicks on the items in input order, then exactly one key-up
\* of the same modifier; no modifier event occurs between two clicks.
C9_GestureOrder ==
    (sel.pc = "done" /\ treeOutcome.kind = "return") =>
        LET events == SelectSeq(gesture, LAMBDA e : e.type # "pause")
            mod == IF sel.inclusive THEN "SHIFT"
                   ELSE IF sel.darwin THEN "COMMAND" ELSE "CONTROL"
        IN events = <<KeyDown(mod)>> \o [i \in 1..Len(sel.items) |-> Click(sel.items[i])]
                    \o <<KeyUp(mod)>>

\* What the code does keep of C9: one key-down, one click per item on the element
\* of the piece _get_item gave for it, one key-up, in that order, and nothing is
\* delivered before perform().
C9_ModifierBracketsClicks ==
    /\ sel.pc \in {"begin", "find", "perform"} => gesture = <<>>
    /\ (sel.pc = "done" /\ treeOutcome.kind = "return") =>
          LET events == SelectSeq(gesture, LAMBDA e : e.type # "pause")
              mod == IF sel.inclusive THEN "SHIFT"
                     ELSE IF sel.darwin THEN "COMMAND" ELSE "CONTROL"
          IN events = <<KeyDown(mod)>> \o [i \in 1..Len(sel.items) |-> Click(sel.pieces[i].of)]
                      \o <<KeyUp(mod)>>

\* C10: for a CSS chain in which exactly one locator value contains top-level
\* commas (commas not inside a quoted attribute value; b branches),
\* get_css_locator returns exactly b alternatives joined by ", ", each the
\* space-joined rendering of every locator before the comma segment, then one
\* branch, then every locator after it, in chain order.
C10_OneCommaSegment ==
    LET InQuotes(v, p) == Cardinality({q \in 1..(p - 1) : v[q] \in {"'", "\""}}) % 2 = 1
        TopCommas(v) == {p \in 1..Len(v) : v[p] = "," /\ ~InQuotes(v, p)}
        Raw(l) == l.by \in {"css selector", "str"}
        Splits(l) == Raw(l) /\ TopCommas(l.value) # {}
        Branches(v) ==
            LET parts == SplitFrom(v, 1, TopCommas(v))
            IN [j \in DOMAIN parts |->
                   IF parts[j] # <<>> /\ parts[j][1] = " " THEN Tail(parts[j]) ELSE parts[j]]
        Rendering(l) ==
            CASE l.by = "id" -> <<"[", "i", "d", "=", "\"">> \o l.value \o <<"\"", "]">>
              [] l.by = "class name" -> <<".">> \o l.value
              [] l.by = "name" ->
                   <<"[", "n", "a", "m", "e", "=", "\"">> \o l.value \o <<"\"", "]">>
              [] OTHER -> l.value
        n == Len(locators)
    IN (/\ composed # Running
        /\ \A i \in 1..n : locators[i].by \in {"css selector", "str", "id", "class name", "name"}
        /\ Cardinality({i \in 1..n : Splits(locators[i])}) = 1)
       => LET at == CHOOSE i \in 1..n : Splits(locators[i])
              branches == Branches(locators[at].value)
              Alternative(j) ==
                  Join(<<" ">>, [i \in 1..n |-> IF i = at THEN branches[j]
                                               ELSE Rendering(locators[i])])
          IN /\ composed.kind = "return"
             /\ composed.value.value = Join(<<",", " ">>, [j \in DOMAIN branches |-> Alternative(j)])

\* What the code does keep of C10: the same, for the chains in which the commas
\* the pattern matches are the top-level ones.
C10_WhenThePatternMatchesTopLevelCommas ==
    LET InQuotes(v, p) == Cardinality({q \in 1..(p - 1) : v[q] \in {"'", "\""}}) % 2 = 1
        TopCommas(v) == {p \in 1..Len(v) : v[p] = "," /\ ~InQuotes(v, p)}
        Raw(l) == l.by \in {"css selector", "str"}
        Splits(l) == Raw(l) /\ TopCommas(l.value) # {}
        Rendering(l) ==
            CASE l.by = "id" -> <<"[", "i", "d", "=", "\"">> \o l.value \o <<"\"", "]">>
              [] l.by = "class name" -> <<".">> \o l.value
              [] l.by = "name" ->
                   <<"[", "n", "a", "m", "e", "=", "\"">> \o l.value \o <<"\"", "]">>
              [] OTHER -> l.value
        n == Len(locators)
    IN (/\ composed # Running
        /\ \A i \in 1..n : locators[i].by \in {"css selector", "str", "id", "class name", "name"}
        /\ \A i \in 1..n : Raw(locators[i]) => Matches(locators[i].value) = TopCommas(locators[i].value)
        /\ Cardinality({i \in 1..n : Splits(locators[i])}) = 1)
       => LET at == CHOOSE i \in 1..n : Splits(locators[i])
              parts == SplitFrom(locators[at].value, 1, TopCommas(locators[at].value))
              Alternative(j) ==
                  Join(<<" ">>, [i \in 1..n |-> IF i = at THEN StripLeadingSpace(parts[j])
                                               ELSE Rendering(locators[i])])
          IN /\ composed.kind = "return"
             /\ composed.value.value = Join(<<",", " ">>, [j \in DOMAIN parts |-> Alternative(j)])

\* C11: in CSS composition an ID locator with value x renders as [id="x"], a CLASS
\* locator as .x and a NAME locator as [name="x"]; the rendering is appended with
\* a single space to the accumulated prefix, or to every accumulated alternative
\* when an earlier segment contained commas.
C11_IdClassNameRendering ==
    LET Rendering(l) ==
            CASE l.by = "id" -> <<"[", "i", "d", "=", "\"">> \o l.value \o <<"\"", "]">>
              [] l.by = "class name" -> <<".">> \o l.value
              [] l.by = "name" ->
                   <<"[", "n", "a", "m", "e", "=", "\"">> \o l.value \o <<"\"", "]">>
        n == Len(locators)
        After(k) == ForLocators(Lists(<<>>, <<>>), SubSeq(locators, 1, k))
    IN composed # Running =>
         \A k \in 1..n :
            (locators[k].by \in {"id", "class name", "name"} /\ After(k - 1).raised = "none")
            => LET before == After(k - 1)
                   r == Rendering(locators[k])
                   alternatives == [j \in DOMAIN before.complex_css_list |->
                                       before.complex_css_list[j] \o <<" ">> \o r]
               IN /\ After(k).raised = "none"
                  /\ IF before.complex_css_list # <<>>
                     THEN /\ After(k).complex_css_list = alternatives
                          /\ k = n => composed = Return([by |-> "css selector",
                                                         value |-> Join(<<",", " ">>, alternatives)])
                     ELSE /\ After(k).complex_css_list = <<>>
                          /\ After(k).css_list = Append(before.css_list, r)
                          /\ k = n => composed = Return([by |-> "css selector",
                                          value |-> IF before.css_list = <<>> THEN r
                                                    ELSE Join(<<" ">>, before.css_list)
                                                         \o <<" ">> \o r])

\* .a then "b, c" then the id x were composed: .a b [id="x"], .a c [id="x"]
C11_Witness ==
    /\ Len(locators) = 3
    /\ locators[2].value = <<"b", ",", " ", "c">>
    /\ locators[3].by = "id"
    /\ composed.kind = "return"
    /\ composed.value.value =
          <<".", "a", " ", "b", " ", "[", "i", "d", "=", "\"", "x", "\"", "]", ",", " ",
            ".", "a", " ", "c", " ", "[", "i", "d", "=", "\"", "x", "\"", "]">>

\* C12: get_css_locator fails (raises, returns no selector) for every chain that
\* contains an XPATH-strategy locator at any position, and get_xpath_locator fails
\* for every chain that contains a CSS_SELECTOR-strategy locator at any position,
\* whatever the other locators of the chain are.
C12_WrongDialectFails ==
    /\ (composed # Running /\ \E k \in DOMAIN locators : locators[k].by = "xpath")
          => composed.kind = "raise"
    /\ (xcomposed # Running /\ \E k \in DOMAIN locators : locators[k].by = "css selector")
          => xcomposed.kind = "raise"

\* A list with a comma segment first and an xpath last, and one with a CSS
\* selector last behind an id: both builders were called and both failed.
C12_Witness ==
    /\ Len(locators) = 3
    /\ locators[1].by = "id"
    /\ locators[2].by = "xpath"
    /\ locators[3] = [by |-> "css selector", value |-> <<"b", ",", " ", "c">>]
    /\ composed.kind = "raise" /\ composed.exc = "TypeError"
    /\ xcomposed.kind = "raise" /\ xcomposed.exc = "TypeError"

C14_WalkStopsAtEmptyLabel ==
    LET RECURSIVE Parents(_)
        Parents(i) == IF heap[i].parent = 0 THEN <<>>
                      ELSE <<heap[i].parent>> \o Parents(heap[i].parent)
        InAncestry(i) == {heap[i].ancestry[k] : k \in DOMAIN heap[i].ancestry}
    IN \A i \in DOMAIN heap :
          /\ \A k \in DOMAIN Parents(i) :
                heap[Parents(i)[k]].label = <<>>
                => \A m \in k..Len(Parents(i)) : Parents(i)[m] \notin InAncestry(i)
          /\ \A k \in DOMAIN Parents(i) :
                (\A m \in 1..k : heap[Parents(i)[m]].label # <<>>)
                => Parents(i)[k] \in InAncestry(i)
          /\ \A a \in InAncestry(i) : heap[a].label # <<>>
          /\ (heap[i].parent # 0 /\ heap[heap[i].parent].label = <<>>)
             => heap[i].ancestry = <<>>

\* An Item under a labelled parent whose own parent has an empty label, the
\* empty-label Item itself having a labelled parent: the ancestry holds the direct
\* parent alone.  And an Item whose direct parent has an empty label.
C14_Witness ==
    /\ \E i \in DOMAIN heap :
          /\ heap[i].parent # 0
          /\ heap[heap[i].parent].label # <<>>
          /\ heap[heap[i].parent].parent # 0
          /\ heap[heap[heap[i].parent].parent].label = <<>>
          /\ heap[heap[heap[i].parent].parent].parent # 0
          /\ heap[heap[heap[heap[i].parent].parent].parent].label # <<>>
          /\ heap[i].ancestry = <<heap[i].parent>>
    /\ \E i \in DOMAIN heap :
          /\ heap[i].parent # 0
          /\ heap[heap[i].parent].label = <<>>
          /\ heap[i].ancestry = <<>>

\* C15: two Items built by separate construction calls from equal label chains
\* (same own label, same sequence of ancestor labels) have equal locators and
\* equal paths, although they are distinct objects.
C15_EqualChainsEqualLocators ==
    LET Chain(i) == [k \in DOMAIN heap[i].ancestry |-> heap[heap[i].ancestry[k]].label]
    IN \A i, j \in DOMAIN heap :
          (i # j /\ heap[i].label = heap[j].label /\ Chain(i) = Chain(j))
          => /\ heap[i].locator = heap[j].locator
             /\ heap[i].path = heap[j].path

\* Two Items labelled "b", each under its own parent Item labelled "a": four
\* objects from four construction calls, one locator and one path.
C15_Witness ==
    \E i, j \in DOMAIN heap :
        /\ i # j
        /\ heap[i].parent # 0 /\ heap[j].parent # 0
        /\ heap[i].parent # heap[j].parent
        /\ heap[i].label = Lb /\ heap[j].label = Lb
        /\ heap[heap[i].parent].label = La /\ heap[heap[j].parent].label = La
        /\ heap[i].ancestry # heap[j].ancestry
        /\ heap[i].locator = heap[j].locator
        /\ heap[i].path = <<"a", "/", "b">> /\ heap[j].path = <<"a", "/", "b">>

\* C16 as stated: the locator of an Item has exactly one selector segment per
\* label of its chain, in root-to-leaf order: a "node" selector keyed by the
\* label for each ancestor, and for the leaf (the Item's own label) a "tree item"
\* selector in place of a "node" selector.
C16_Original ==
    \A i \in DOMAIN heap :
        LET labels == [k \in DOMAIN heap[i].ancestry |-> heap[heap[i].ancestry[k]].label]
            spaces == {k \in DOMAIN heap[i].locator.value : heap[i].locator.value[k] = " "}
        IN /\ Cardinality(spaces) + 1 = Len(labels) + 1
           /\ heap[i].locator.value =
                 Join(<<" ">>, [k \in DOMAIN labels |-> NodeCss(labels[k])]
                               \o <<TerminalCss(heap[i].label)>>)

\* C16: the locator of an Item is a CSS selector with one "node" selector segment
\* per label of its chain, the Item's own label included, in root-to-leaf order,
\* followed by one more segment: a "tree item" selector keyed by the Item's own
\* label.  An Item with n ancestors in its ancestry has n + 2 segments.
C16_NodePerLabelThenTreeItem ==
    \A i \in DOMAIN heap :
        LET labels == [k \in DOMAIN heap[i].ancestry |-> heap[heap[i].ancestry[k]].label]
                     \o <<heap[i].label>>
            spaces == {k \in DOMAIN heap[i].locator.value : heap[i].locator.value[k] = " "}
        IN /\ heap[i].locator.by = ByCss
           /\ Cardinality(spaces) + 1 = Len(labels) + 1
           /\ heap[i].locator.value =
                 Join(<<" ">>, [k \in DOMAIN labels |-> NodeCss(labels[k])]
                               \o <<TerminalCss(heap[i].label)>>)

\* An Item labelled "a" under "b" under "a": four segments, the third a node
\* selector keyed by the Item's own label and the fourth the tree item selector.
C16_Witness ==
    \E i \in DOMAIN heap :
        /\ Len(heap[i].ancestry) = 2
        /\ heap[i].label = La
        /\ heap[i].locator.value =
              NodeCss(La) \o <<" ">> \o NodeCss(Lb) \o <<" ">> \o NodeCss(La)
              \o <<" ">> \o TerminalCss(La)

\* C17 as stated: boundary_collision returns true exactly when the two rectangles
\* overlap in an area of positive size on both axes; two rectangles that only
\* share an edge or a corner give false.
C17_Original ==
    LET Min(a, b) == IF a < b THEN a ELSE b
        Max(a, b) == IF a > b THEN a ELSE b
        \* the length the spans [a1, a1 + l1] and [a2, a2 + l2] have in common
        Common(a1, l1, a2, l2) == Min(a1 + l1, a2 + l2) - Max(a1, a2)
    IN (op.name = "boundary_collision" /\ outcome.kind = "return")
       => LET r1 == rects[1]
              r2 == rects[2]
          IN outcome.value.v = (/\ Common(r1.x, r1.width, r2.x, r2.width) > 0
                                /\ Common(r1.y, r1.height, r2.y, r2.height) > 0)

\* C17: boundary_collision returns true exactly when, on both axes, each of the two
\* rectangles begins strictly before the other one ends.  For two rectangles of
\* positive width and height that is exactly when they overlap in an area of
\* positive size on both axes; rectangles whose spans only meet end to start on
\* some axis (a shared edge or corner) give false; a rectangle of zero width or
\* height gives true when it lies strictly inside the other one's span on that
\* axis, although the area in common is empty.
C17_StrictOverlap ==
    LET Min(a, b) == IF a < b THEN a ELSE b
        Max(a, b) == IF a > b THEN a ELSE b
        Common(a1, l1, a2, l2) == Min(a1 + l1, a2 + l2) - Max(a1, a2)
        Before(a1, a2, l2) == a1 < a2 + l2
        Meet(a1, l1, a2, l2) == a1 + l1 = a2 \/ a2 + l2 = a1
        Inside(a1, l1, a2, l2) == l1 = 0 /\ a2 < a1 /\ a1 < a2 + l2
        Positive(r) == r.width > 0 /\ r.height > 0
    IN (op.name = "boundary_collision" /\ outcome.kind = "return")
       => LET r1 == rects[1]
              r2 == rects[2]
              v == outcome.value.v
          IN /\ outcome.value.t = "bool"
             /\ v = (/\ Before(r1.x, r2.x, r2.width) /\ Before(r2.x, r1.x, r1.width)
                     /\ Before(r1.y, r2.y, r2.height) /\ Before(r2.y, r1.y, r1.height))
             /\ (Positive(r1) /\ Positive(r2))
                => v = (/\ Common(r1.x, r1.width, r2.x, r2.width) > 0
                        /\ Common(r1.y, r1.height, r2.y, r2.height) > 0)
             /\ (Meet(r1.x, r1.width, r2.x, r2.width) \/ Meet(r1.y, r1.height, r2.y, r2.height))
                => ~v
             /\ (Inside(r1.x, r1.width, r2.x, r2.width) /\ Inside(r1.y, r1.height, r2.y, r2.height))
                => v

\* The rectangles (0,0,1,1) and (1,0,1,1) share an edge and give false, on a call
\* whose first invocation found a stale element.
C17_Witness ==
    /\ op.name = "boundary_collision"
    /\ rects = <<Rect(0, 0, 1, 1), Rect(1, 0, 1, 1)>>
    /\ outcome = Return(Bool(FALSE))
    /\ hist.stales = 1

\* C18: when a click attempt made by click() or click_with_offset() is blocked by
\* an intercepting element, the caller receives the interception failure and no
\* further click attempt is made within that call, whatever happens during the
\* diagnostic capture.  Here for click_with_offset: once an attempt was
\* intercepted the call is over, it ended with the interception failure, and no
\* click was attempted after the intercepted one.
C18_InterceptionSurfacesOnce ==
    (op.name = "click_with_offset" /\ capture.blocked > 0)
    => /\ pc = "done"
       /\ outcome = Raise(Intercepted, "")
       /\ capture.later = 0

\* C18 for click(): a poll whose click was intercepted ends the call with the
\* interception failure, and it was the last click attempted.
C18_ClickSurfacesInterception ==
    (op.name = "click" /\ hist.lastRes = Raise(Intercepted, ""))
    => /\ pc = "done"
       /\ outcome = Raise(Intercepted, "")

\* C19: no operation other than the documented boolean probe methods turns a
\* not-found failure into a default return value: every non-probe operation (for
\* example get_text_of_top_level_items, get_text_of_all_items_in_tree,
\* BarcodeScanner.get_text) propagates not-found to its caller instead of
\* returning an empty list, None or False.  Here: a call of one of the three whose
\* last use of the driver ended in not-found gave its caller that failure.
C19_NotFoundPropagates ==
    (/\ op.name \in {"get_text_of_top_level_items", "get_text_of_all_items_in_tree",
                     "BarcodeScanner.get_text"}
     /\ pc = "done"
     /\ hist.lastRes = Raise(Timeout, "not found"))
    => outcome = Raise(Timeout, "not found")

\* C20: every blocking operation (find, find_all, lose, click,
\* wait_on_text_condition, and the operations wrapped by the stale-element retry)
\* called with an explicit timeout T, or with the instance default T when none is
\* given, returns or fails no later than T plus one poll interval after the call
\* started.  Here for the operations wrapped by the stale-element retry, which
\* take no timeout of their own: T is the instance default.
C20_ReturnsByDeadline ==
    (op.name \in RetryOps /\ pc = "done") => now <= InstTimeout + 1

\* C20 for click(timeout): T is the timeout given, or the instance default.
C20_ClickReturnsByDeadline ==
    (op.name = "click" /\ op.wait_after_click = 0 /\ pc = "done")
    => now <= EffectiveTimeout(op.timeout) + 1

\* C20 for wait_on_text_condition(timeout): T is the timeout given, or the
\* instance default.
C20_WaitReturnsByDeadline ==
    (op.name = "wait_on_text_condition" /\ pc = "done")
    => now <= EffectiveTimeout(op.timeout) + 1

\* C21: for every component type in the source, including CommonTextInput,
\* get_text and the text-condition wait built on it retry internally when the
\* element handle goes stale between resolution and use, and surface the
\* staleness failure only after the fixed retry budget is exhausted.  Here for
\* CommonTextInput: a call that ended with the staleness failure had met
\* staleness on all RetryAttempts + 1 invocations of one retried read.
C21_StalenessOnlyAfterBudget ==
    (/\ op.name \in {"CommonTextInput.get_text", "CommonTextInput.wait_on_text_condition"}
     /\ pc = "done"
     /\ outcome.kind = "raise" /\ outcome.exc = Stale)
    => hist.stales = RetryAttempts + 1

C23_ChildKeepsParentChain ==
    comps.child # NoPiece
    => LET expected == born \o <<comps.child.own>>
       IN /\ lists[comps.child.plist] = born
          /\ lists[comps.child.llist] = expected
          /\ comps.child.plist \notin {comps.parent.plist, comps.parent.llist}
          /\ comps.child.llist \notin {comps.parent.plist, comps.parent.llist}
          /\ get_full_css_locator(lists, comps.child) = get_css_locator(expected)
          /\ get_full_xpath_locator(lists, comps.child) = get_xpath_locator(expected)

\* A child built under a two-locator parent list; since then the parent's list was
\* replaced by set_locator and changed in place, and the child re-derived its own
\* list in set_locator.
C23_Witness ==
    /\ comps.child # NoPiece
    /\ Len(born) = 2
    /\ comps.parent.llist > comps.child.llist
    /\ lists[comps.parent.llist] # born
    /\ Len(lists[comps.parent.llist]) = 2
    /\ lists[comps.parent.llist][2] # comps.parent.own
    /\ lists[comps.child.llist] = born \o <<comps.child.own>>

\* C24: after set_locator(L) is called on an instance obtained from
\* ComponentCollection.get(k), every later get(k) still returns that same
\* instance with L as its own locator: the cache entry stays under the
\* originally formatted key and the reassigned locator is not reset.
C24_ReassignedInstanceStaysCached ==
    \A id \in DOMAIN assigned :
        /\ instLocator[id] = assigned[id].locator
        /\ \E k \in DOMAIN cache :
              /\ cache[k] = id
              /\ returnedFor[k].ids = {id}
              /\ Format(Template, returnedFor[k].first) = k
              /\ ctorCount[k] = 1
        /\ Cardinality({k \in DOMAIN cache : cache[k] = id}) = 1

\* An instance was given the locator another key formats to, and a get() with its
\* own key returned it after that; its key is not the locator it holds now.
C24_Witness ==
    \E id \in DOMAIN assigned :
        /\ assigned[id].later >= 1
        /\ lastGet.outcome = "returned" /\ lastGet.id = id
        /\ instLocator[id] = Format(Template, <<IntPiece(1), IntPiece(12)>>)
        /\ Format(Template, <<IntPiece(12), IntPiece(1)>>) \in DOMAIN cache
        /\ cache[Format(Template, <<IntPiece(12), IntPiece(1)>>)] = id

\* C25: composing the same locator chain twice, for the CSS dialect or for the
\* XPATH dialect, yields identical output strings, and composing does not change
\* the chain, so repeated get_full_css_locator / get_full_xpath_locator calls on
\* an unchanged component always agree.
C25_ComposingTwiceAgrees ==
    /\ [](/\ recomposed.css # Running => recomposed.css = composed
          /\ recomposed.xpath # Running => recomposed.xpath = xcomposed)
    /\ [][locators' = locators]_vars

\* A chain with two comma-separated selectors, so that a set of strings was
\* iterated, composed twice for CSS, the second time with the other iteration
\* order, with the same selector both times.
C25_Witness ==
    /\ Len(locators) = 3
    /\ locators[1].value = <<"b", ",", " ", "c">>
    /\ locators[2].value = <<"b", ",", "c", " ", ",", "d">>
    /\ hashseed = "reversed"
    /\ composed.kind = "return"
    /\ recomposed.css = composed

\* C26: when the last find(timeout=0) of a finished call of is_displayed,
\* item_is_displayed or quality_overlay_is_displayed matched no element, the call
\* returned False; and no call of a probe accessor ends by raising
\* TimeoutException.
C26_ProbesAnswerFalseWhenNotFound ==
    (pc = "done" /\ probed # <<>>) =>
        /\ probed[Len(probed)] = "notfound" => outcome = Return(Bool(FALSE))
        /\ ~(outcome.kind = "raise" /\ outcome.exc = Timeout)
\* is_displayed met a stale element first and no element on the next pass
C26_Witness ==
    /\ pc = "done"
    /\ op.name = "is_displayed"
    /\ probed = <<"stale", "notfound">>
    /\ outcome = Return(Bool(FALSE))

\* C27: get_css_locator returns no selector for a chain that holds a locator whose
\* strategy is XPATH, LINK_TEXT or PARTIAL_LINK_TEXT: every such composition ends
\* with an exception.
C27_XpathOnlyChainsRejected ==
    (composed # Running
     /\ \E k \in DOMAIN locators :
           locators[k].by \in {ByXpath, ByLinkText, ByPartialLinkText})
    => composed.kind = "raise"
\* C27, for the one strategy get_css_locator has a case for: a chain holding an
\* XPATH locator is rejected with TypeError, and a chain without one is never
\* rejected with TypeError.
C27_OnlyXpathRejected ==
    composed # Running =>
        ((\E k \in DOMAIN locators : locators[k].by = ByXpath)
         <=> (composed.kind = "raise" /\ composed.exc = TypeError))

\* C29: for a chain of ID, NAME, TAG_NAME and XPATH locators get_xpath_locator
\* returns, under the XPATH strategy, the fragments of the locators one after the
\* other in chain order with nothing between them: //*[@id="x"] for the id x,
\* //*[@name="x"] for the name x, //x for the tag name x, and the value itself for
\* an xpath.
C29_XpathIsConcatenationOfFragments ==
    LET Fragment(l) ==
            CASE l.by = "id" ->
                   <<"/", "/", "*", "[", "@", "i", "d", "=", "\"">> \o l.value \o <<"\"", "]">>
              [] l.by = "name" ->
                   <<"/", "/", "*", "[", "@", "n", "a", "m", "e", "=", "\"">> \o l.value
                   \o <<"\"", "]">>
              [] l.by = "tag name" -> <<"/", "/">> \o l.value
              [] l.by = "xpath" -> l.value
        UpTo[k \in 0..Len(locators)] ==
            IF k = 0 THEN <<>> ELSE UpTo[k - 1] \o Fragment(locators[k])
    IN (xcomposed # Running
        /\ \A k \in DOMAIN locators : locators[k].by \in {"id", "name", "tag name", "xpath"})
       => xcomposed = Return([by |-> "xpath", value |-> UpTo[Len(locators)]])
\* the tag name g, the id x and the xpath //d were composed: //g//*[@id="x"]//d
C29_Witness ==
    /\ Len(locators) = 3
    /\ locators[1].by = "tag name"
    /\ locators[2].by = "id"
    /\ locators[3].by = "xpath"
    /\ xcomposed.kind = "return"
    /\ xcomposed.value.value =
          <<"/", "/", "g", "/", "/", "*", "[", "@", "i", "d", "=", "\"", "x", "\"", "]",
            "/", "/", "d">>

\* C28: when multi_select has ended and some Item of its list has no element in
\* the document, the call raised TimeoutException and nothing (no key-down, click
\* or key-up) was delivered to the browser.
C28_FailFast ==
    (sel.pc = "done" /\ \E i \in DOMAIN sel.items : ~Displayed(sel.items[i]))
    => /\ treeOutcome.kind = "raise" /\ treeOutcome.exc = Timeout
       /\ gesture = <<>>
\* What the code does keep of C28: when the piece _get_item gave for some Item of
\* the list matches no element, the call raised TimeoutException; and a call that
\* raised TimeoutException delivered nothing.
C28_FailFastOnThePiecesFound ==
    /\ (sel.pc = "done" /\ \E i \in DOMAIN sel.pieces : ~Displayed(sel.pieces[i].of))
       => (treeOutcome.kind = "raise" /\ treeOutcome.exc = Timeout)
    /\ (sel.pc = "done" /\ treeOutcome.kind = "raise" /\ treeOutcome.exc = Timeout)
       => gesture = <<>>

\* C30: in every step, and so whatever label or parent attribute of whatever Item
\* is reassigned and whatever CommonTree asks of an Item, each Item that exists
\* keeps the ancestry, the locator and the path it was constructed with.
C30_AncestryLocatorPathFixed ==
    [][\A id \in DOMAIN heap :
          /\ heap'[id].ancestry = heap[id].ancestry
          /\ heap'[id].locator = heap[id].locator
          /\ heap'[id].path = heap[id].path]_vars
\* an Item has a parent that was relabelled after the Item was built: the
\* parent's label is no longer the one the Item's path starts with
C30_Witness ==
    \E id \in DOMAIN heap :
        /\ Len(heap[id].ancestry) = 1
        /\ heap[id].parent = heap[id].ancestry[1]
        /\ heap[heap[id].parent].label = Lb
        /\ heap[id].path = Path(<<La, La>>)

\* C31: while expand_to_item(item, max_attempts=N, delay_between_attempts=d) is in
\* progress, the time slept so far is the back-off of the attempts the call itself
\* has given up, d each, and nothing else; the calls made through
\* set_expansion_state are on their first attempt of at most N.
C31_WalksAndBackoffBoundedByArguments ==
    stack # <<>> =>
        /\ slept <= (stack[1].attempt - 1) * stack[1].delay
        /\ \A k \in 2..Len(stack) : stack[k].attempt <= stack[1].max
\* What the code does keep of C31: every call, the outermost and the ones made
\* through set_expansion_state, makes at most as many attempts as its own
\* max_attempts, and the calls made through set_expansion_state have the default
\* arguments, not those of the outermost call.
C31_EachCallWithinItsOwnAttempts ==
    \A k \in DOMAIN stack :
        /\ stack[k].attempt <= stack[k].max
        /\ k > 1 => stack[k].max = DefaultMaxAttempts /\ stack[k].delay = DefaultDelay

\* C32: every piece multi_select(items, timeout=T) got from
\* _get_item(item, timeout=T) resolves with the wait limit T, whatever the tree
\* was asked about these Items before.
C32_PiecesWaitUpToTimeout ==
    sel.pc \in {"find", "perform", "done"} =>
        \A i \in DOMAIN sel.pieces : sel.pieces[i].timeout = sel.timeout
\* What the code does keep of C32: the piece for an Item is the entry the tree
\* keeps under the Item's path, and it has the wait limit T when this call built
\* it and the wait limit it was built with when the entry was there before.
C32_PiecesAreTheEntriesKept ==
    sel.pc \in {"find", "perform", "done"} =>
        \A i \in DOMAIN sel.pieces :
            /\ Path(sel.items[i]) \in DOMAIN items
            /\ sel.pieces[i] = items[Path(sel.items[i])]
            /\ sel.pieces[i].timeout \in {sel.timeout, ItemTimeout}

\* C33: when get_css_locator returns for a chain with a locator that holds commas,
\* the alternatives it joins with ", " are as many as the product of the branch
\* counts of the locators, and each of them is one branch of every locator of the
\* chain, in chain order, joined by single spaces.
C33_AlternativesAreTheCrossProduct ==
    LET Rendering(l) ==
            CASE l.by = "id" -> <<"[", "i", "d", "=", "\"">> \o l.value \o <<"\"", "]">>
              [] l.by = "class name" -> <<".">> \o l.value
              [] l.by = "name" ->
                   <<"[", "n", "a", "m", "e", "=", "\"">> \o l.value \o <<"\"", "]">>
              [] OTHER -> l.value
        Branches(l) ==
            IF l.by \in {"id", "class name", "name"} THEN {Rendering(l)}
            ELSE LET parts == re_split(l.value)
                 IN {IF parts[j] # <<>> /\ parts[j][1] = " " THEN Tail(parts[j]) ELSE parts[j] :
                        j \in DOMAIN parts}
        Count(l) == IF l.by \in {"id", "class name", "name"} THEN 1 ELSE Len(re_split(l.value))
        Combos[k \in 0..Len(locators)] ==
            IF k = 0 THEN {<<>>}
            ELSE {IF p = <<>> THEN b ELSE p \o <<" ">> \o b :
                     p \in Combos[k - 1], b \in Branches(locators[k])}
        Product[k \in 0..Len(locators)] ==
            IF k = 0 THEN 1 ELSE Product[k - 1] * Count(locators[k])
        alternatives == ForLocators(Lists(<<>>, <<>>), locators).complex_css_list
    IN (composed # Running /\ composed.kind = "return" /\ alternatives # <<>>) =>
          /\ composed.value.value = Join(<<",", " ">>, alternatives)
          /\ Len(alternatives) = Product[Len(locators)]
          /\ \A i \in DOMAIN alternatives : alternatives[i] \in Combos[Len(locators)]
\* C33, for chains in which no locator repeats a branch: the same, and no
\* alternative occurs twice.
C33_CrossProductOfDistinctBranches ==
    LET Rendering(l) ==
            CASE l.by = "id" -> <<"[", "i", "d", "=", "\"">> \o l.value \o <<"\"", "]">>
              [] l.by = "class name" -> <<".">> \o l.value
              [] l.by = "name" ->
                   <<"[", "n", "a", "m", "e", "=", "\"">> \o l.value \o <<"\"", "]">>
              [] OTHER -> l.value
        Parts(l) ==
            IF l.by \in {"id", "class name", "name"} THEN <<Rendering(l)>>
            ELSE LET parts == re_split(l.value)
                 IN [j \in DOMAIN parts |->
                        IF parts[j] # <<>> /\ parts[j][1] = " " THEN Tail(parts[j]) ELSE parts[j]]
        Branches(l) == {Parts(l)[j] : j \in DOMAIN Parts(l)}
        Repeats(l) == Cardinality(Branches(l)) < Len(Parts(l))
        Combos[k \in 0..Len(locators)] ==
            IF k = 0 THEN {<<>>}
            ELSE {IF p = <<>> THEN b ELSE p \o <<" ">> \o b :
                     p \in Combos[k - 1], b \in Branches(locators[k])}
        Product[k \in 0..Len(locators)] ==
            IF k = 0 THEN 1 ELSE Product[k - 1] * Len(Parts(locators[k]))
        alternatives == ForLocators(Lists(<<>>, <<>>), locators).complex_css_list
    IN (composed # Running /\ composed.kind = "return" /\ alternatives # <<>>
        /\ \A k \in DOMAIN locators : ~Repeats(locators[k])) =>
          /\ composed.value.value = Join(<<",", " ">>, alternatives)
          /\ Len(alternatives) = Product[Len(locators)]
          /\ \A i \in DOMAIN alternatives : alternatives[i] \in Combos[Len(locators)]

\* C34: when a set_expansion_state(item, b) has just returned, whether called from
\* outside or by expand_to_item for an ancestor (b is True then), it clicked the
\* icon of item at most once, it clicked exactly when item_is_expanded had
\* returned the opposite of b (so never on an ancestor observed as expanded), and,
\* if the driver produced no failure during the outermost call, item is expanded
\* exactly if b is True.
C34_ClicksOnlyToChangeTheState ==
    event.kind = "setdone" =>
        /\ event.clicked \in {0, 1}
        /\ event.clicked = 1 <=> event.saw # Observed(event.should)
        /\ event.quiet => (event.target \in expanded <=> event.should)
\* set_expansion_state(item, False) was called from outside on an expanded item and
\* has returned after one click: the item is collapsed
C34_Witness ==
    /\ event.kind = "setdone"
    /\ stack = <<>>
    /\ treeOutcome = Return(NoneValue)
    /\ ~event.should
    /\ event.saw = "expanded"
    /\ event.clicked = 1
    /\ Len(event.target) = 2
    /\ event.target \notin expanded

\* C35: the Item _item_from_tag returns for a tag with the labels l1, ..., ln below
\* its provider has the label ln and the path l1/l2/.../ln.
C35_ItemFollowsTagPath ==
    (pc = "done" /\ op.name = "_item_from_tag") =>
        LET labels == op.tag.labels
            item == heap[outcome.value.v]
        IN /\ item.label = labels[Len(labels)]
           /\ item.path = Path(labels)
\* What the code does keep of C35: the first label of the tag's path is the root
\* of the Item and the other labels follow it last to first, so the Item has the
\* label l2 and the path l1/ln/.../l2; this is the tag's path for n <= 2.
C35_ItemHasRestOfPathReversed ==
    (pc = "done" /\ op.name = "_item_from_tag") =>
        LET labels == op.tag.labels
            n == Len(labels)
            order == [k \in 1..n |-> IF k = 1 THEN labels[1] ELSE labels[n + 2 - k]]
            item == heap[outcome.value.v]
        IN /\ item.label = order[n]
           /\ item.path = Path(order)
           /\ n <= 2 => item.path = Path(labels)

\* C36: every piece the tree uses for an Item is built from that Item's own
\* locator: an entry of the cache of pieces stands for Items of one locator only,
\* and the piece multi_select got for an Item has the locator of that Item, also
\* when a label holds "/".
C36_PieceHasTheLocatorOfItsItem ==
    /\ \A c \in SelItems :
          Path(c) \in DOMAIN items => items[Path(c)].locator = get_locator(c)
    /\ sel.pc \in {"find", "perform", "done"} =>
          \A i \in DOMAIN sel.pieces : sel.pieces[i].locator = get_locator(sel.items[i])
\* What the code does keep of C36: an entry is shared by the Items of one path, and
\* its piece has the locator of the Item that was asked for first; Items whose
\* paths differ never share an entry.
C36_EntriesAreSharedByPath ==
    /\ \A key \in DOMAIN items :
          /\ Path(items[key].of) = key
          /\ items[key].locator = get_locator(items[key].of)
    /\ sel.pc \in {"find", "perform", "done"} =>
          \A i \in DOMAIN sel.pieces :
              /\ Path(sel.pieces[i].of) = Path(sel.items[i])
              /\ sel.pieces[i].locator # get_locator(sel.items[i])
                 => sel.pieces[i].of # sel.items[i]

\* C37: expand_to_item ends, by returning or by raising, for every Item and every
\* max_attempts when each driver call returns; and every nested expand_to_item is
\* on an Item with a strictly shorter ancestry than the Item of the call that
\* made it, so the calls in progress are never more than the depth of the Item.
C37_ExpandToItemTerminates ==
    /\ <>(stack = <<>> /\ treeOutcome.kind \in {"return", "raise"})
    /\ [](\A k \in 2..Len(stack) :
             /\ Len(get_ancestry(stack[k].item)) < Len(get_ancestry(stack[k - 1].item))
             /\ Len(stack) <= Len(stack[1].item))
\* C37's case is reached: a call on the deepest Item has ended after it nested
\* calls on the ancestors and went through a second attempt.
C37_Witness ==
    /\ stack = <<>>
    /\ treeOutcome.kind \in {"return", "raise"}
    /\ Path(ChainOf(MaxDepth)) \in DOMAIN items
    /\ Path(ChainOf(MaxDepth - 1)) \in DOMAIN items
    /\ slept > 0
====
